---- MODULE Spec2Model ----
(***************************************************************************)
(* Authentication and session-integrity core of the pilot portal:          *)
(* the session token codec (src/src/lib/auth.ts), the request gate         *)
(* (middleware), the record endpoints under /api/sites and the remote      *)
(* store client with its rate limiter.                                     *)
(*                                                                         *)
(* Strings are sequences of UTF-16 code units (naturals), as JavaScript    *)
(* strings are; a byte buffer is a sequence of naturals below 256.         *)
(***************************************************************************)
EXTENDS Integers, Sequences, FiniteSets, TLC

VARIABLES
    now,        \* Date.now(), in ms from the start of the run
    secret,     \* the configured SESSION_SECRET; <<>> when not configured
    issue,      \* codec: the last createSessionToken call and its outcome
    held,       \* codec: the token text later handed to verifySessionToken
    flipped,    \* codec: held is issue.token with one signature bit changed
    ver,        \* codec: the last verifySessionToken call and its result
    cookie,     \* http: the Cookie header the client sends; <<>> when it has none
    pc,         \* http: where the request in flight is
    req,        \* http: the request in flight, with the Cookie header it carries
    ctx,        \* http: context.locals.session, and whether next() ran
    resp,       \* http: the response
    upd,        \* http: the progress of updateSite / getSitesForPilot
    owner,      \* remote store: the record's 'Pilot name text ' field
    lastRequestTime, \* rate limiter: time of the last outbound call
    rl,         \* rate limiter: each caller's position in rateLimitedFetch
    calls,      \* rate limiter: the issue times of the outbound calls, in order
    call,       \* library: the last call of a library function and its result
    first       \* gate: a decision of the gate remembered with its inputs

(***************************************************************************)
(* String helpers (String.prototype.startsWith / includes / split / trim)  *)
(***************************************************************************)

StartsWith(s, p) ==
    /\ Len(s) >= Len(p)
    /\ SubSeq(s, 1, Len(p)) = p

Includes(s, p) ==
    \E i \in 1..(Len(s) - Len(p) + 1) : SubSeq(s, i, i + Len(p) - 1) = p

\* JavaScript WhiteSpace and LineTerminator code units below 256
IsWhite(c) == c \in {9, 10, 11, 12, 13, 32, 160}

RECURSIVE TrimStart(_)
TrimStart(s) ==
    IF s # <<>> /\ IsWhite(Head(s)) THEN TrimStart(Tail(s)) ELSE s

RECURSIVE TrimEnd(_)
TrimEnd(s) ==
    IF s # <<>> /\ IsWhite(s[Len(s)]) THEN TrimEnd(SubSeq(s, 1, Len(s) - 1)) ELSE s

Trim(s) == TrimEnd(TrimStart(s))

\* s.split(sep) for a one-character separator: the parts, in order; part k
\* lies between the (k-1)-th and the k-th occurrence of the separator
Split(s, sep) ==
    LET at == {i \in 1..Len(s) : s[i] = sep}
        Nth(k) == IF k = 0 THEN 0
                  ELSE IF k > Cardinality(at) THEN Len(s) + 1
                  ELSE CHOOSE i \in at : Cardinality({j \in at : j < i}) = k - 1
    IN  [k \in 1..(Cardinality(at) + 1) |-> SubSeq(s, Nth(k - 1) + 1, Nth(k) - 1)]

\* the concatenation of the sequences ss[lo..hi]
RECURSIVE Flatten(_, _, _)
Flatten(ss, lo, hi) ==
    IF lo > hi THEN <<>>
    ELSE IF lo = hi THEN ss[lo]
    ELSE Flatten(ss, lo, (lo + hi) \div 2) \o Flatten(ss, (lo + hi) \div 2 + 1, hi)

(***************************************************************************)
(* Hex helpers: auth.ts hexToBuffer / bufferToHex                          *)
(***************************************************************************)

IsHexDigit(c) == c \in (48..57) \cup (65..70) \cup (97..102)

HexVal(c) ==
    IF c \in 48..57 THEN c - 48
    ELSE IF c \in 65..70 THEN c - 55
    ELSE c - 87

\* Number.prototype.toString(16) of one nibble: lower-case digits
HexChar(n) == IF n < 10 THEN 48 + n ELSE 87 + n

\* parseInt(s, 16) for the one- or two-character substrings hexToBuffer cuts:
\* leading white space is skipped, then an optional sign, then an optional
\* 0x / 0X prefix, then the longest run of hex digits; no digit gives NaN.
RECURSIVE ParseDigits(_, _)
ParseDigits(s, acc) ==
    IF s # <<>> /\ IsHexDigit(Head(s))
    THEN ParseDigits(Tail(s), 16 * acc + HexVal(Head(s)))
    ELSE acc

ParseInt16(str) ==
    LET s1 == TrimStart(str)
        neg == s1 # <<>> /\ Head(s1) = 45
        s2 == IF s1 # <<>> /\ Head(s1) \in {43, 45} THEN Tail(s1) ELSE s1
        s3 == IF Len(s2) >= 2 /\ s2[1] = 48 /\ s2[2] \in {88, 120}
              THEN SubSeq(s2, 3, Len(s2)) ELSE s2
    IN  IF s3 = <<>> \/ ~IsHexDigit(Head(s3))
        THEN [nan |-> TRUE, v |-> 0]
        ELSE [nan |-> FALSE,
              v |-> IF neg THEN 0 - ParseDigits(s3, 0) ELSE ParseDigits(s3, 0)]

\* the store into a Uint8Array element: ToUint8 (NaN becomes 0, else modulo 256)
ToUint8(r) == IF r.nan THEN 0 ELSE r.v % 256

\* hexToBuffer: [ok |-> FALSE] is the RangeError of new Uint8Array(n + 0.5)
hexToBuffer(hex) ==
    IF Len(hex) % 2 # 0
    THEN [ok |-> FALSE, bytes |-> <<>>]
    ELSE [ok |-> TRUE,
          bytes |-> [i \in 1..(Len(hex) \div 2) |->
                        ToUint8(ParseInt16(SubSeq(hex, 2 * i - 1, 2 * i)))]]

\* bufferToHex: two lower-case digits per byte (padStart(2, '0'))
bufferToHex(bytes) ==
    [i \in 1..(2 * Len(bytes)) |->
        IF i % 2 = 1 THEN HexChar(bytes[(i + 1) \div 2] \div 16)
        ELSE HexChar(bytes[i \div 2] % 16)]

(***************************************************************************)
(* Platform functions used by the codec: btoa / atob, JSON.stringify /     *)
(* JSON.parse of a session payload, HMAC-SHA256.                           *)
(***************************************************************************)

B64Char(i) ==
    IF i < 26 THEN 65 + i
    ELSE IF i < 52 THEN 97 + (i - 26)
    ELSE IF i < 62 THEN 48 + (i - 52)
    ELSE IF i = 62 THEN 43 ELSE 47

IsB64Char(c) == c \in (65..90) \cup (97..122) \cup (48..57) \cup {43, 47}

B64Val(c) ==
    IF c \in 65..90 THEN c - 65
    ELSE IF c \in 97..122 THEN c - 97 + 26
    ELSE IF c \in 48..57 THEN c - 48 + 52
    ELSE IF c = 43 THEN 62 ELSE 63

\* base64 of a byte sequence: output character j belongs to the group of
\* three bytes g = (j-1) div 4; a byte past the end counts as 0 and a
\* character made of no input byte is the padding '='
B64Encode(b) ==
    LET n == Len(b)
        At(i) == IF i <= n THEN b[i] ELSE 0
    IN  [j \in 1..(4 * ((n + 2) \div 3)) |->
            LET g == (j - 1) \div 4
                b1 == At(3 * g + 1)
                b2 == At(3 * g + 2)
                b3 == At(3 * g + 3)
            IN  CASE j % 4 = 1 -> B64Char(b1 \div 4)
                  [] j % 4 = 2 -> B64Char((b1 % 4) * 16 + b2 \div 16)
                  [] j % 4 = 3 -> IF 3 * g + 2 > n THEN 61
                                  ELSE B64Char((b2 % 16) * 4 + b3 \div 64)
                  [] OTHER     -> IF 3 * g + 3 > n THEN 61 ELSE B64Char(b3 % 64)]

\* btoa: a code unit above 0xFF raises InvalidCharacterError ([ok |-> FALSE])
btoa(s) ==
    IF \E i \in 1..Len(s) : s[i] > 255
    THEN [ok |-> FALSE, text |-> <<>>]
    ELSE [ok |-> TRUE, text |-> B64Encode(s)]

\* the bytes of a sequence of 6-bit values: every 4 values give 3 bytes, a
\* last group of 2 or 3 values gives 1 or 2 bytes
B64Decode(v) ==
    LET n == Len(v)
    IN  [k \in 1..((n * 6) \div 8) |->
            LET g == (k - 1) \div 3
                v1 == v[4 * g + 1]
                v2 == v[4 * g + 2]
                v3 == IF 4 * g + 3 <= n THEN v[4 * g + 3] ELSE 0
                v4 == IF 4 * g + 4 <= n THEN v[4 * g + 4] ELSE 0
            IN  CASE k % 3 = 1 -> v1 * 4 + v2 \div 16
                  [] k % 3 = 2 -> (v2 % 16) * 16 + v3 \div 4
                  [] OTHER     -> (v3 % 4) * 64 + v4]

NotAsciiWhite(c) == c \notin {9, 10, 12, 13, 32}

DropAsciiWhite(s) == SelectSeq(s, NotAsciiWhite)

\* atob (forgiving-base64 decode): white space is dropped, one or two trailing
\* '=' are dropped when the length is a multiple of 4; a length of 4n+1 or a
\* character outside the alphabet raises InvalidCharacterError
atob(text) ==
    LET s  == DropAsciiWhite(text)
        n  == Len(s)
        s1 == IF n % 4 = 0 /\ n >= 2 /\ s[n] = 61 /\ s[n - 1] = 61
              THEN SubSeq(s, 1, n - 2)
              ELSE IF n % 4 = 0 /\ n >= 1 /\ s[n] = 61 THEN SubSeq(s, 1, n - 1)
              ELSE s
    IN  IF Len(s1) % 4 = 1 \/ \E i \in 1..Len(s1) : ~IsB64Char(s1[i])
        THEN [ok |-> FALSE, text |-> <<>>]
        ELSE [ok |-> TRUE,
              text |-> B64Decode([i \in 1..Len(s1) |-> B64Val(s1[i])])]

\* Number.prototype.toString() of a non-negative integer
RECURSIVE Digits(_)
Digits(n) ==
    IF n < 10 THEN <<48 + n>> ELSE Append(Digits(n \div 10), 48 + (n % 10))

\* JSON.stringify's QuoteJSONString, for code units outside the surrogate range
JsonEscape(c) ==
    CASE c = 34 -> <<92, 34>>
      [] c = 92 -> <<92, 92>>
      [] c = 8  -> <<92, 98>>
      [] c = 9  -> <<92, 116>>
      [] c = 10 -> <<92, 110>>
      [] c = 12 -> <<92, 102>>
      [] c = 13 -> <<92, 114>>
      [] c < 32 /\ c \notin {8, 9, 10, 12, 13} ->
            <<92, 117, 48, 48, HexChar(c \div 16), HexChar(c % 16)>>
      [] OTHER -> <<c>>

JsonEscapeAll(s) == Flatten([i \in 1..Len(s) |-> JsonEscape(s[i])], 1, Len(s))

JsonQuote(s) == <<34>> \o JsonEscapeAll(s) \o <<34>>

\* "email", "name", "exp" as property names
KeyEmail == <<101, 109, 97, 105, 108>>
KeyName == <<110, 97, 109, 101>>
KeyExp == <<101, 120, 112>>

\* JSON.stringify({email, name, exp}): properties in insertion order
JsonStringify(p) ==
    <<123>> \o JsonQuote(KeyEmail) \o <<58>> \o JsonQuote(p.email)
        \o <<44>> \o JsonQuote(KeyName) \o <<58>> \o JsonQuote(p.name)
        \o <<44>> \o JsonQuote(KeyExp) \o <<58>> \o Digits(p.exp)
        \o <<125>>

\* A JSON string literal starting at t[i] (the opening quote): the decoded
\* string and the index after the closing quote
RECURSIVE ScanJsonString(_, _, _)
ScanJsonString(t, i, acc) ==
    IF i > Len(t) THEN [ok |-> FALSE, str |-> <<>>, next |-> i]
    ELSE IF t[i] = 34 THEN [ok |-> TRUE, str |-> acc, next |-> i + 1]
    ELSE IF t[i] < 32 THEN [ok |-> FALSE, str |-> <<>>, next |-> i]
    ELSE IF t[i] # 92 THEN ScanJsonString(t, i + 1, Append(acc, t[i]))
    ELSE IF i + 1 > Len(t) THEN [ok |-> FALSE, str |-> <<>>, next |-> i]
    ELSE IF t[i + 1] \in {34, 92, 47}
        THEN ScanJsonString(t, i + 2, Append(acc, t[i + 1]))
    ELSE IF t[i + 1] = 98 THEN ScanJsonString(t, i + 2, Append(acc, 8))
    ELSE IF t[i + 1] = 102 THEN ScanJsonString(t, i + 2, Append(acc, 12))
    ELSE IF t[i + 1] = 110 THEN ScanJsonString(t, i + 2, Append(acc, 10))
    ELSE IF t[i + 1] = 114 THEN ScanJsonString(t, i + 2, Append(acc, 13))
    ELSE IF t[i + 1] = 116 THEN ScanJsonString(t, i + 2, Append(acc, 9))
    ELSE IF /\ t[i + 1] = 117
            /\ i + 5 <= Len(t)
            /\ \A k \in (i + 2)..(i + 5) : IsHexDigit(t[k])
        THEN ScanJsonString(t, i + 6,
                 Append(acc, ParseDigits(SubSeq(t, i + 2, i + 5), 0)))
    ELSE [ok |-> FALSE, str |-> <<>>, next |-> i]

\* A JSON non-negative integer literal starting at t[i]
RECURSIVE ScanJsonNumber(_, _, _)
ScanJsonNumber(t, i, acc) ==
    IF i <= Len(t) /\ t[i] \in 48..57
    THEN ScanJsonNumber(t, i + 1, 10 * acc + (t[i] - 48))
    ELSE [num |-> acc, next |-> i]

\* JSON values: null, true, false, numbers, strings, arrays (items: the
\* elements) and objects (items: the members, each [name, val])
JNull == [k |-> "null", num |-> 0, str |-> <<>>, items |-> <<>>]
JTrue == [k |-> "true", num |-> 0, str |-> <<>>, items |-> <<>>]
JFalse == [k |-> "false", num |-> 0, str |-> <<>>, items |-> <<>>]
JNumber(n) == [k |-> "number", num |-> n, str |-> <<>>, items |-> <<>>]
JString(s) == [k |-> "string", num |-> 0, str |-> s, items |-> <<>>]
JArray(items) == [k |-> "array", num |-> 0, str |-> <<>>, items |-> items]
JObject(members) == [k |-> "object", num |-> 0, str |-> <<>>, items |-> members]

\* the SyntaxError of JSON.parse
JsonFail == [ok |-> FALSE, val |-> JNull, next |-> 0]

\* JSON white space
RECURSIVE SkipWs(_, _)
SkipWs(t, i) ==
    IF i <= Len(t) /\ t[i] \in {9, 10, 13, 32} THEN SkipWs(t, i + 1) ELSE i

\* t holds the literal w at index i
LiteralAt(t, i, w) == i + Len(w) - 1 <= Len(t) /\ SubSeq(t, i, i + Len(w) - 1) = w

StringResult(sv) ==
    IF sv.ok THEN [ok |-> TRUE, val |-> JString(sv.str), next |-> sv.next] ELSE JsonFail

\* numbers are the non-negative integers without a leading zero
NumberResult(t, i, nv) ==
    IF t[i] = 48 /\ nv.next > i + 1 THEN JsonFail
    ELSE [ok |-> TRUE, val |-> JNumber(nv.num), next |-> nv.next]

\* JSON.parse by recursive descent: the value starting at or after t[i] and
\* the index after it
RECURSIVE ParseValue(_, _)
RECURSIVE ParseElements(_, _, _)
RECURSIVE ParseMembers(_, _, _)

ElementEnd(t, i, acc) ==
    IF i > Len(t) THEN JsonFail
    ELSE IF t[i] = 93 THEN [ok |-> TRUE, val |-> JArray(acc), next |-> i + 1]
    ELSE IF t[i] = 44 THEN ParseElements(t, i + 1, acc)
    ELSE JsonFail

AfterElement(t, r, acc) ==
    IF ~r.ok THEN JsonFail ELSE ElementEnd(t, SkipWs(t, r.next), Append(acc, r.val))

ParseElements(t, i, acc) == AfterElement(t, ParseValue(t, i), acc)

MemberEnd(t, i, acc) ==
    IF i > Len(t) THEN JsonFail
    ELSE IF t[i] = 125 THEN [ok |-> TRUE, val |-> JObject(acc), next |-> i + 1]
    ELSE IF t[i] = 44 THEN ParseMembers(t, SkipWs(t, i + 1), acc)
    ELSE JsonFail

AfterValue(t, name, r, acc) ==
    IF ~r.ok THEN JsonFail
    ELSE MemberEnd(t, SkipWs(t, r.next), Append(acc, [name |-> name, val |-> r.val]))

AfterColon(t, name, i, acc) ==
    IF i > Len(t) THEN JsonFail
    ELSE IF t[i] # 58 THEN JsonFail
    ELSE AfterValue(t, name, ParseValue(t, i + 1), acc)

AfterName(t, k, acc) ==
    IF ~k.ok THEN JsonFail ELSE AfterColon(t, k.str, SkipWs(t, k.next), acc)

ParseMembers(t, i, acc) ==
    IF i > Len(t) THEN JsonFail
    ELSE IF t[i] # 34 THEN JsonFail
    ELSE AfterName(t, ScanJsonString(t, i + 1, <<>>), acc)

ArrayBody(t, i) ==
    IF i <= Len(t) /\ t[i] = 93 THEN [ok |-> TRUE, val |-> JArray(<<>>), next |-> i + 1]
    ELSE ParseElements(t, i, <<>>)

ObjectBody(t, i) ==
    IF i <= Len(t) /\ t[i] = 125 THEN [ok |-> TRUE, val |-> JObject(<<>>), next |-> i + 1]
    ELSE ParseMembers(t, i, <<>>)

ValueAt(t, i) ==
    IF i > Len(t) THEN JsonFail
    ELSE IF t[i] = 34 THEN StringResult(ScanJsonString(t, i + 1, <<>>))
    ELSE IF t[i] \in 48..57 THEN NumberResult(t, i, ScanJsonNumber(t, i, 0))
    ELSE IF t[i] = 91 THEN ArrayBody(t, SkipWs(t, i + 1))
    ELSE IF t[i] = 123 THEN ObjectBody(t, SkipWs(t, i + 1))
    ELSE IF LiteralAt(t, i, <<110, 117, 108, 108>>)
        THEN [ok |-> TRUE, val |-> JNull, next |-> i + 4]
    ELSE IF LiteralAt(t, i, <<116, 114, 117, 101>>)
        THEN [ok |-> TRUE, val |-> JTrue, next |-> i + 4]
    ELSE IF LiteralAt(t, i, <<102, 97, 108, 115, 101>>)
        THEN [ok |-> TRUE, val |-> JFalse, next |-> i + 5]
    ELSE JsonFail

ParseValue(t, i) == ValueAt(t, SkipWs(t, i))

\* the whole text is one value
WholeText(t, r) ==
    IF r.ok /\ SkipWs(t, r.next) = Len(t) + 1 THEN [ok |-> TRUE, val |-> r.val]
    ELSE [ok |-> FALSE, val |-> JNull]

\* JSON.parse(t): [ok |-> FALSE] is the SyntaxError
JsonParseText(t) == WholeText(t, ParseValue(t, 1))

\* the property name of an object value: the last member of that name wins;
\* [has |-> FALSE] is undefined (also for a value that is not an object)
Property(v, name) ==
    IF v.k # "object" \/ \A i \in 1..Len(v.items) : v.items[i].name # name
    THEN [has |-> FALSE, val |-> JNull]
    ELSE [has |-> TRUE,
          val |-> v.items[CHOOSE i \in 1..Len(v.items) :
                              /\ v.items[i].name = name
                              /\ \A j \in 1..Len(v.items) :
                                    v.items[j].name = name => j <= i].val]

\* ToBoolean of a JSON value
Truthy(v) ==
    CASE v.k \in {"null", "false"} -> FALSE
      [] v.k = "number" -> v.num # 0
      [] v.k = "string" -> v.str # <<>>
      [] OTHER -> TRUE

\* a string property as read by the code: the string, or <<>> with FALSE
StringOf(p) == IF p.has /\ p.val.k = "string" THEN p.val.str ELSE <<>>
IsStringProp(p) == p.has /\ p.val.k = "string"
NumberOf(p) == IF p.has /\ p.val.k = "number" THEN p.val.num ELSE 0
IsNumberProp(p) == p.has /\ p.val.k = "number"

\* a parsed value seen as a SessionPayload: ok is "not null"; kind is the
\* value's JSON kind; email, name and exp are the properties of those names
\* when they have the declared type
PayloadView(v) ==
    [ok |-> v.k # "null", kind |-> v.k, truthy |-> Truthy(v),
     email |-> StringOf(Property(v, KeyEmail)),
     hasEmail |-> IsStringProp(Property(v, KeyEmail)),
     name |-> StringOf(Property(v, KeyName)),
     hasName |-> IsStringProp(Property(v, KeyName)),
     exp |-> NumberOf(Property(v, KeyExp)),
     hasExp |-> IsNumberProp(Property(v, KeyExp))]

\* JSON.parse of a payload text: [parsed |-> FALSE] is the SyntaxError
PayloadOf(r) == [parsed |-> r.ok, payload |-> PayloadView(r.val)]

JsonParse(t) == PayloadOf(JsonParseText(t))

\* TextEncoder.encode: UTF-8 of code units outside the surrogate range
Utf8(c) ==
    IF c < 128 THEN <<c>>
    ELSE IF c < 2048 THEN <<192 + (c \div 64), 128 + (c % 64)>>
    ELSE <<224 + (c \div 4096), 128 + ((c \div 64) % 64), 128 + (c % 64)>>

encodeText(s) == Flatten([i \in 1..Len(s) |-> Utf8(s[i])], 1, Len(s))

\* HMAC-SHA256 (crypto.subtle.sign / verify) is abstracted as a keyed
\* two-byte checksum: deterministic, and sensitive to key and message.
\* the position-weighted sum of bytes[lo..hi] modulo 65521
RECURSIVE Checksum(_, _, _, _)
Checksum(bytes, lo, hi, m) ==
    IF lo > hi THEN 0
    ELSE IF lo = hi THEN ((bytes[lo] + 1) * ((((lo * lo * m) + (lo * 17)) % 251) + 1)) % 65521
    ELSE (Checksum(bytes, lo, (lo + hi) \div 2, m)
            + Checksum(bytes, (lo + hi) \div 2 + 1, hi, m)) % 65521

HmacSign(keyBytes, msgBytes) ==
    LET ipad == keyBytes \o <<54>> \o msgBytes
        inner == Checksum(ipad, 1, Len(ipad), 7)
        opad == keyBytes \o <<92>> \o Digits(inner)
        outer == Checksum(opad, 1, Len(opad), 13)
    IN  <<(outer \div 256) % 256, outer % 256>>

\* crypto.subtle.verify('HMAC', ...): the recomputed MAC equals the signature
\* a verification that accepts every signature
HmacVerifyAny(keyBytes, sigBytes, msgBytes) == TRUE

HmacVerify(keyBytes, sigBytes, msgBytes) ==
    sigBytes = HmacSign(keyBytes, msgBytes)

(***************************************************************************)
(* Session token codec: auth.ts createSessionToken / verifySessionToken    *)
(***************************************************************************)

SESSION_DURATION_MS == 7 * 24 * 60 * 60 * 1000

\* the null a verification returns, and the shape of a returned payload
NullSession == PayloadView(JNull)

\* getSigningKey: the raw bytes of the secret as the HMAC key; importKey
\* raises a DataError for a key of length zero
getSigningKey(sessionSecret) ==
    [ok |-> sessionSecret # <<>>, bytes |-> encodeText(sessionSecret)]

\* the token of an encoded payload: payload, '.', hex of the HMAC over it
SignPayload(payloadB64, key) ==
    IF ~payloadB64.ok \/ ~key.ok THEN [ok |-> FALSE, token |-> <<>>]
    ELSE [ok |-> TRUE,
          token |-> payloadB64.text \o <<46>>
                        \o bufferToHex(HmacSign(key.bytes, encodeText(payloadB64.text)))]

\* createSessionToken at time t: [ok |-> FALSE] when btoa or importKey throws
createSessionToken(email, name, sessionSecret, t) ==
    SignPayload(
        btoa(JsonStringify([email |-> email, name |-> name,
                            exp |-> t + SESSION_DURATION_MS])),
        getSigningKey(sessionSecret))

\* the expiry test of verifySessionToken: TRUE when the payload is rejected
Expired(exp, t) == exp < t

\* verifySessionToken, after the signature verified: decode, parse, expiry.
\* Reading .exp of null is a TypeError, caught like the decoding errors; an
\* absent exp (undefined) compares false and the value is returned.
CheckExpiry(r, t) ==
    IF ~r.parsed THEN NullSession
    ELSE IF ~r.payload.ok THEN NullSession
    ELSE IF r.payload.hasExp /\ Expired(r.payload.exp, t) THEN NullSession
    ELSE r.payload

DecodePayload(decoded, t) ==
    IF ~decoded.ok THEN NullSession ELSE CheckExpiry(JsonParse(decoded.text), t)

\* verifySessionToken on the two parts: the signature check
VerifyParts(payloadB64, signatureBuffer, key, t) ==
    IF ~key.ok \/ ~signatureBuffer.ok THEN NullSession
    ELSE IF ~HmacVerify(key.bytes, signatureBuffer.bytes, encodeText(payloadB64))
        THEN NullSession
    ELSE DecodePayload(atob(payloadB64), t)

SplitToken(parts, sessionSecret, t) ==
    IF Len(parts) # 2 THEN NullSession
    ELSE VerifyParts(parts[1], hexToBuffer(parts[2]), getSigningKey(sessionSecret), t)

\* verifySessionToken at time t: the payload, or NullSession for null
verifySessionToken(token, sessionSecret, t) ==
    SplitToken(Split(token, 46), sessionSecret, t)

(***************************************************************************)
(* Cookie helpers: auth.ts setSessionCookie / clearSessionCookie /         *)
(* getSessionCookie                                                        *)
(***************************************************************************)

\* "pilot_session" and "pilot_session="
SESSION_COOKIE_NAME == <<112, 105, 108, 111, 116, 95, 115, 101, 115, 115, 105, 111, 110>>
CookiePrefix == SESSION_COOKIE_NAME \o <<61>>

\* "; Path=/; HttpOnly; Secure; SameSite=Lax; Max-Age="
CookieAttributes ==
    <<59, 32, 80, 97, 116, 104, 61, 47, 59, 32, 72, 116, 116, 112, 79, 110, 108, 121,
      59, 32, 83, 101, 99, 117, 114, 101, 59, 32, 83, 97, 109, 101, 83, 105, 116, 101,
      61, 76, 97, 120, 59, 32, 77, 97, 120, 45, 65, 103, 101, 61>>

\* the Set-Cookie header values
setSessionCookie(token) ==
    CookiePrefix \o token \o CookieAttributes \o Digits(7 * 24 * 60 * 60)

clearSessionCookie == CookiePrefix \o CookieAttributes \o Digits(0)

\* getSessionCookie: [found |-> FALSE] is null
FirstMatch(entries, hits) ==
    IF hits = {} THEN [found |-> FALSE, value |-> <<>>]
    ELSE [found |-> TRUE,
          value |-> SubSeq(entries[CHOOSE i \in hits : \A j \in hits : i <= j],
                           Len(SESSION_COOKIE_NAME) + 2,
                           Len(entries[CHOOSE i \in hits : \A j \in hits : i <= j]))]

\* the search by the name alone, without the '='
FindCookieByPrefix(entries) ==
    FirstMatch(entries,
               {i \in 1..Len(entries) : StartsWith(entries[i], SESSION_COOKIE_NAME)})

FindCookie(entries) ==
    FirstMatch(entries,
               {i \in 1..Len(entries) : StartsWith(entries[i], CookiePrefix)})

TrimAll(parts) == [i \in 1..Len(parts) |-> Trim(parts[i])]

getSessionCookie(cookieHeader) ==
    IF cookieHeader = <<>> THEN [found |-> FALSE, value |-> <<>>]
    ELSE FindCookie(TrimAll(Split(cookieHeader, 59)))

\* what a browser keeps of a Set-Cookie value and sends back as Cookie:
\* name=value, or nothing when Max-Age=0
CookieSentBack(setCookie) ==
    IF setCookie = clearSessionCookie THEN <<>> ELSE Split(setCookie, 59)[1]

(***************************************************************************)
(* Password hashing and credential lookup: auth.ts hashPassword /          *)
(* verifyPassword / getCredentials / authenticatePilot                     *)
(***************************************************************************)

\* PBKDF2-SHA256 (crypto.subtle.deriveBits) is abstracted as a salted
\* two-byte checksum of the password bytes
Pbkdf2(passwordBytes, saltBytes) ==
    LET m == saltBytes \o <<1>> \o passwordBytes
        h == Checksum(m, 1, Len(m), 29)
    IN  <<(h \div 256) % 256, h % 256>>

\* an optional string: an omitted argument, an absent property or
\* environment variable (undefined), or the string
None == [has |-> FALSE, val |-> <<>>]
Some(s) == [has |-> TRUE, val |-> s]

\* what crypto.getRandomValues(new Uint8Array(16)) may yield
RandomSalts == {[i \in 1..16 |-> 17], [i \in 1..16 |-> (i * 37) % 256]}

\* hashPassword from the salt bytes on
HashWithSalt(password, saltBytes) ==
    [ok |-> TRUE,
     hash |-> bufferToHex(Pbkdf2(encodeText(password), saltBytes)),
     salt |-> bufferToHex(saltBytes)]

\* hashPassword with a salt that is not falsy: [ok |-> FALSE] is the
\* RangeError hexToBuffer raises
HashSupplied(password, buffer) ==
    IF ~buffer.ok THEN [ok |-> FALSE, hash |-> <<>>, salt |-> <<>>]
    ELSE HashWithSalt(password, buffer.bytes)

\* hashPassword: `salt ? hexToBuffer(salt) : crypto.getRandomValues(...)`;
\* random is what getRandomValues yields when it is called
hashPassword(password, salt, random) ==
    IF ~salt.has \/ salt.val = <<>> THEN HashWithSalt(password, random)
    ELSE HashSupplied(password, hexToBuffer(salt.val))

\* the comparison cut down to the length test
LengthEqual(hash, storedHash) == Len(hash) = Len(storedHash)

\* verifyPassword's comparison: the accumulated XOR of the code units is 0
\* exactly when the two strings of equal length agree at every position
ConstantTimeEqual(hash, storedHash) ==
    IF Len(hash) # Len(storedHash) THEN FALSE
    ELSE \A i \in 1..Len(hash) : hash[i] = storedHash[i]

\* verifyPassword after hashPassword: threw is the error of hashPassword or
\* the TypeError of storedHash.length on undefined
CompareHash(h, storedHash) ==
    IF ~h.ok \/ ~storedHash.has THEN [threw |-> TRUE, valid |-> FALSE]
    ELSE [threw |-> FALSE, valid |-> ConstantTimeEqual(h.hash, storedHash.val)]

verifyPassword(password, storedHash, salt, random) ==
    CompareHash(hashPassword(password, salt, random), storedHash)

\* String.prototype.toLowerCase on Latin-1 code units
ToLower(s) ==
    [i \in 1..Len(s) |->
        IF s[i] \in 65..90 \/ (s[i] \in 192..222 /\ s[i] # 215) THEN s[i] + 32 ELSE s[i]]

\* "passwordHash", "salt" as property names
KeyPasswordHash == <<112, 97, 115, 115, 119, 111, 114, 100, 72, 97, 115, 104>>
KeySalt == <<115, 97, 108, 116>>

\* getCredentials: [] when PILOT_CREDENTIALS is absent or empty or does not
\* parse, else whatever JSON.parse returns
ParsedOrEmpty(r) == IF r.ok THEN r.val ELSE JArray(<<>>)

getCredentials(raw) ==
    IF ~raw.has \/ raw.val = <<>> THEN JArray(<<>>)
    ELSE ParsedOrEmpty(JsonParseText(raw.val))

\* an element of the list seen as a PilotCredential: usable is FALSE when
\* c.email.toLowerCase() raises a TypeError
CredentialView(c) ==
    [usable |-> IsStringProp(Property(c, KeyEmail)),
     email |-> StringOf(Property(c, KeyEmail)),
     name |-> StringOf(Property(c, KeyName)),
     passwordHash |-> IF IsStringProp(Property(c, KeyPasswordHash))
                      THEN Some(StringOf(Property(c, KeyPasswordHash))) ELSE None,
     salt |-> IF IsStringProp(Property(c, KeySalt))
              THEN Some(StringOf(Property(c, KeySalt))) ELSE None]

\* the result of authenticatePilot: the credential, null (NoPilot) or an error
NoPilot == [threw |-> FALSE, found |-> FALSE, email |-> <<>>, name |-> <<>>]
PilotError == [threw |-> TRUE, found |-> FALSE, email |-> <<>>, name |-> <<>>]

\* authenticatePilot after find: valid ? pilot : null
PilotIfValid(pilot, v) ==
    IF v.threw THEN PilotError
    ELSE IF v.valid
        THEN [threw |-> FALSE, found |-> TRUE, email |-> pilot.email, name |-> pilot.name]
    ELSE NoPilot

CheckPilot(pilot, password, random) ==
    IF ~pilot.usable THEN PilotError
    ELSE PilotIfValid(pilot,
                      verifyPassword(password, pilot.passwordHash, pilot.salt, random))

\* a search that takes the last element it stops on
FindPilotLast(list, stops, password, random) ==
    IF stops = {} THEN NoPilot
    ELSE CheckPilot(CredentialView(list[CHOOSE i \in stops : \A j \in stops : i >= j]),
                    password, random)

\* credentials.find(...): the callback runs on the elements in order up to
\* the first one that matches; stops holds the elements on which it stops,
\* by a match or by the TypeError of c.email.toLowerCase()
FindPilot(list, stops, password, random) ==
    IF stops = {} THEN NoPilot
    ELSE CheckPilot(CredentialView(list[CHOOSE i \in stops : \A j \in stops : i <= j]),
                    password, random)

SearchList(list, email, password, random) ==
    FindPilot(list,
              {i \in 1..Len(list) :
                  \/ ~CredentialView(list[i]).usable
                  \/ ToLower(CredentialView(list[i]).email) = ToLower(email)},
              password, random)

\* authenticatePilot on the value getCredentials returned: find on a value
\* that is not an array is a TypeError
SearchCredentials(credentials, email, password, random) ==
    IF credentials.k # "array" THEN PilotError
    ELSE SearchList(credentials.items, email, password, random)

authenticatePilot(email, password, raw, random) ==
    SearchCredentials(getCredentials(raw), email, password, random)

\* "ab", "cd": salts; "pw1", "pw2", "pw3": passwords
SaltA == <<97, 98>>
SaltB == <<99, 100>>
PasswordA == <<112, 119, 49>>
PasswordB == <<112, 119, 50>>
PasswordC == <<112, 119, 51>>

\* "A@X", "l@x", "z@x"
EmailAUpper == <<65, 64, 88>>
EmailL == <<108, 64, 120>>
EmailZ == <<122, 64, 120>>

\* one entry of PILOT_CREDENTIALS, as JSON text
CredentialJson(email, name, passwordHash, salt) ==
    <<123>> \o JsonQuote(KeyEmail) \o <<58>> \o JsonQuote(email)
        \o <<44>> \o JsonQuote(KeyName) \o <<58>> \o JsonQuote(name)
        \o <<44>> \o JsonQuote(KeyPasswordHash) \o <<58>> \o JsonQuote(passwordHash)
        \o <<44>> \o JsonQuote(KeySalt) \o <<58>> \o JsonQuote(salt)
        \o <<125>>

\* the entry for a pilot whose password was hashed with the salt
CredentialFor(email, name, password, salt) ==
    CredentialJson(email, name, hashPassword(password, Some(salt), <<>>).hash, salt)

\* the configured PILOT_CREDENTIALS: a@x / Jo / pw1, b@x / Al / pw2 and
\* l@x / L-stroke u / pw3
ConfiguredCredentials ==
    Some(<<91>> \o CredentialFor(<<97, 64, 120>>, <<74, 111>>, PasswordA, SaltA)
             \o <<44>> \o CredentialFor(<<98, 64, 120>>, <<65, 108>>, PasswordB, SaltB)
             \o <<44>> \o CredentialFor(EmailL, <<321, 117>>, PasswordC, SaltA)
             \o <<93>>)

(***************************************************************************)
(* Request gate: middleware onRequest                                      *)
(***************************************************************************)

\* the protected paths with the login page among them
IsProtectedLogin(pathname) ==
    \/ StartsWith(pathname, "/members")
    \/ StartsWith(pathname, "/api/sites")
    \/ StartsWith(pathname, "/login")

IsProtected(pathname) ==
    StartsWith(pathname, "/members") \/ StartsWith(pathname, "/api/sites")

\* the gate's decision for a request at time t: next() with or without a
\* session attached, or the redirect to /login/
GateSession(session) ==
    IF ~session.ok \/ ~session.truthy THEN [next |-> FALSE, session |-> NullSession]
    ELSE [next |-> TRUE, session |-> session]

\* the gate without the verification: any cookie value is let through
GateTokenUnverified(token, sessionSecret, t) ==
    IF ~token.found \/ token.value = <<>>
    THEN [next |-> FALSE, session |-> NullSession]
    ELSE [next |-> TRUE, session |-> verifySessionToken(token.value, sessionSecret, t)]

GateToken(token, sessionSecret, t) ==
    IF ~token.found \/ token.value = <<>>
    THEN [next |-> FALSE, session |-> NullSession]
    ELSE GateSession(verifySessionToken(token.value, sessionSecret, t))

\* a gate that looks the session up on every path
GateOutcomeLookup(pathname, cookieHeader, sessionSecret, t) ==
    IF ~IsProtected(pathname)
    THEN [next |-> TRUE,
          session |-> GateToken(getSessionCookie(cookieHeader), sessionSecret, t).session]
    ELSE IF sessionSecret = <<>> THEN [next |-> FALSE, session |-> NullSession]
    ELSE GateToken(getSessionCookie(cookieHeader), sessionSecret, t)

\* a gate that decides one request only and turns every later one away
GateOutcomeOnce(pathname, cookieHeader, sessionSecret, t) ==
    IF first.set THEN [next |-> FALSE, session |-> NullSession]
    ELSE IF ~IsProtected(pathname) THEN [next |-> TRUE, session |-> NullSession]
    ELSE IF sessionSecret = <<>> THEN [next |-> FALSE, session |-> NullSession]
    ELSE GateToken(getSessionCookie(cookieHeader), sessionSecret, t)

GateOutcome(pathname, cookieHeader, sessionSecret, t) ==
    IF ~IsProtected(pathname) THEN [next |-> TRUE, session |-> NullSession]
    ELSE IF sessionSecret = <<>> THEN [next |-> FALSE, session |-> NullSession]
    ELSE GateToken(getSessionCookie(cookieHeader), sessionSecret, t)

(***************************************************************************)
(* Remote store client (airtable): updateSite's checks and the endpoint's  *)
(* mapping of errors to statuses                                           *)
(***************************************************************************)

\* the allowlist of updateSite
allowedFields ==
    {"Approval Status", "Scheduling Window", "Flown Date", "Data Uploaded",
     "H&S Completed Date"}

\* the submitted fields passed on without the filter
safeFieldsAll(fields) == fields

safeFields(fields) == fields \cap allowedFields

\* the ownership check of updateSite: (existing.fields[...] as string)?.trim()
\* equals pilotName; a missing field gives undefined, equal to no name
\* the comparison without the trim
OwnerMatchesUntrimmed(field, pilotName) ==
    field.has /\ field.val = pilotName

\* the check skipped for a record without the field
OwnerMatchesOrMissing(field, pilotName) ==
    ~field.has \/ Trim(field.val) = pilotName

OwnerMatches(field, pilotName) ==
    field.has /\ Trim(field.val) = pilotName

UnauthorizedMessage == "Unauthorized: site does not belong to this pilot"

NotFoundMessage(recordId) == "Site not found: " \o recordId

UpdateErrorMessage(status, text) == "Airtable update error: " \o status \o " " \o text

\* the PATCH endpoint's catch block: the status for a thrown error
\* the status chosen by comparing the whole message
ErrorStatusExact(message) == IF message = "Unauthorized" THEN 403 ELSE 500

ErrorStatus(message) == IF Includes(message, "Unauthorized") THEN 403 ELSE 500

\* params.id of the route /api/sites/[id]
RecordIdOf(pathname) == SubSeq(pathname, Len("/api/sites/") + 1, Len(pathname))

(***************************************************************************)
(* State                                                                   *)
(***************************************************************************)

codecVars == <<issue, held, flipped, ver>>

httpVars == <<cookie, pc, req, ctx, resp, upd, owner>>

rateVars == <<lastRequestTime, rl, calls>>

auxVars == <<call, first>>

vars == <<now, secret, codecVars, httpVars, rateVars, auxVars>>

\* the instants the clock is observed at: within ClockSlack ms of the start
\* of the run and of one session lifetime later
ClockSlack == 1

ClockPoints ==
    (0..ClockSlack)
        \cup ((SESSION_DURATION_MS - ClockSlack)..(SESSION_DURATION_MS + ClockSlack))

\* "k1", "k2"
SecretA == <<107, 49>>
SecretB == <<107, 50>>
NoSecret == <<>>

\* "a@x", "b@x"
EmailA == <<97, 64, 120>>
EmailB == <<98, 64, 120>>

\* "Jo", "Al", "Zo" + e-diaeresis (U+00EB), L-stroke (U+0141) + "u"
NameJo == <<74, 111>>
NameAl == <<65, 108>>
NameZoe == <<90, 111, 235>>
NameLu == <<321, 117>>

Emails == {EmailA, EmailB}
Names == {NameJo, NameZoe, NameLu}

NoIssue == [called |-> FALSE, email |-> <<>>, name |-> <<>>, at |-> 0,
            ok |-> FALSE, token |-> <<>>]

NoVerify == [called |-> FALSE, at |-> 0, token |-> <<>>, flipped |-> FALSE,
             res |-> NullSession]

\* a field of a remote record: present with a value, or absent
NoField == [has |-> FALSE, val |-> <<>>]
Field(v) == [has |-> TRUE, val |-> v]

\* the owner values the record takes: none, "Jo", "Jo " and "Al"
Owners == {NoField, Field(NameJo), Field(NameJo \o <<32>>), Field(NameAl)}

NoBody == [kind |-> "none", email |-> <<>>, password |-> <<>>, fields |-> {}]
NoReq == [method |-> "", path |-> "", body |-> NoBody, cookie |-> <<>>]
NoCtx == [session |-> NullSession, ran |-> FALSE, at |-> 0]
NoResp == [status |-> 0, location |-> "", setCookie |-> <<>>, error |-> ""]
NoUpd == [readOk |-> FALSE, readOwner |-> NoField, patchIssued |-> FALSE,
          applied |-> FALSE, ownerAtApply |-> NoField, failure |-> "", pages |-> 0,
          readIssued |-> FALSE, sent |-> {}]

\* no request in flight, no call made
HttpAtRest ==
    /\ cookie = <<>>
    /\ pc = "idle"
    /\ req = NoReq
    /\ ctx = NoCtx
    /\ resp = NoResp
    /\ upd = NoUpd
    /\ owner = Field(NameJo)

\* callers of rateLimitedFetch
Callers == {"c1", "c2"}

RateAtRest ==
    /\ lastRequestTime = 0
    /\ rl = [c \in Callers |-> [at |-> "idle", wake |-> 0]]
    /\ calls = <<>>

\* no library call made, no decision remembered
NoCall == [fn |-> "none"]
NoFirst == [set |-> FALSE]

AuxAtRest ==
    /\ call = NoCall
    /\ first = NoFirst

\* time passes
Tick(t) ==
    /\ t > now
    /\ now' = t
    /\ UNCHANGED <<secret, codecVars, httpVars, rateVars, auxVars>>

(***************************************************************************)
(* The codec driven directly: one token is issued, optionally has one bit  *)
(* of its signature text changed, and is verified at any later time.       *)
(***************************************************************************)

CodecInit ==
    /\ now = 0
    /\ secret \in {SecretA, SecretB}
    /\ issue = NoIssue
    /\ held = <<>>
    /\ flipped = FALSE
    /\ ver = NoVerify
    /\ HttpAtRest
    /\ RateAtRest
    /\ AuxAtRest

CreateStep(email, name, r) ==
    /\ issue' = [called |-> TRUE, email |-> email, name |-> name,
                 at |-> now, ok |-> r.ok, token |-> r.token]
    /\ held' = r.token

CodecCreate(email, name) ==
    /\ ~issue.called
    /\ CreateStep(email, name, createSessionToken(email, name, secret, now))
    /\ UNCHANGED <<now, secret, flipped, ver, httpVars, rateVars, auxVars>>

\* c with bit b (0 = least significant) inverted
FlipBit(c, b) == IF (c \div (2 ^ b)) % 2 = 1 THEN c - 2 ^ b ELSE c + 2 ^ b

\* the index of the '.' of an issued token
DotAt(token) == CHOOSE i \in 1..Len(token) : token[i] = 46

CodecFlip(i, b) ==
    /\ issue.ok
    /\ ~flipped
    /\ i \in (DotAt(held) + 1)..Len(held)
    /\ held' = [held EXCEPT ![i] = FlipBit(held[i], b)]
    /\ flipped' = TRUE
    /\ UNCHANGED <<now, secret, issue, ver, httpVars, rateVars, auxVars>>

CodecVerify ==
    /\ issue.ok
    /\ ver' = [called |-> TRUE, at |-> now, token |-> held, flipped |-> flipped,
               res |-> verifySessionToken(held, secret, now)]
    /\ UNCHANGED <<now, secret, issue, held, flipped, httpVars, rateVars, auxVars>>

CodecNext ==
    \/ \E t \in ClockPoints : Tick(t)
    \/ \E e \in Emails, n \in Names : CodecCreate(e, n)
    \/ \E i \in 1..80, b \in 0..7 : CodecFlip(i, b)
    \/ CodecVerify

SpecCodec == CodecInit /\ [][CodecNext]_vars

(***************************************************************************)
(* The HTTP surface: one client, one request in flight at a time. A        *)
(* request passes the gate, then its route's handler; the handlers of the  *)
(* record endpoints wait for the remote store between their steps, and     *)
(* the remote record's owner may be changed by others at any moment.       *)
(***************************************************************************)

Redirect(location) ==
    [status |-> 302, location |-> location, setCookie |-> <<>>, error |-> ""]

Json(status, error) ==
    [status |-> status, location |-> "", setCookie |-> <<>>, error |-> error]

\* the email and password of a login: the stored pair with the email in
\* upper case, a wrong password, an unknown email, the credential whose name
\* has a code unit above 0xFF, and each field missing
LoginPairs ==
    {<<EmailAUpper, PasswordA>>, <<EmailA, PasswordC>>, <<EmailZ, PasswordA>>,
     <<EmailL, PasswordC>>, <<<<>>, PasswordA>>, <<EmailA, <<>>>>}

LoginEmails == {p[1] : p \in LoginPairs}
LoginPasswords == {p[2] : p \in LoginPairs}

LoginBodies ==
    {[kind |-> "form", email |-> e, password |-> p, fields |-> {}] :
        <<e, p>> \in LoginPairs}
        \cup {[NoBody EXCEPT !.kind = "bad"]}

PatchBodies ==
    {[NoBody EXCEPT !.kind = "bad"], [NoBody EXCEPT !.kind = "nofields"]}
        \cup {[NoBody EXCEPT !.kind = "fields", !.fields = f] :
                f \in {{"Approval Status"}, {"Site Name"},
                       {"Approval Status", "Site Name"}}}

\* the requests the client makes
Requests ==
    {[method |-> "GET", path |-> p, body |-> NoBody] :
        p \in {"/members/", "/login/", "/api/sites"}}
        \cup {[method |-> "POST", path |-> "/api/auth/login", body |-> b] :
                b \in LoginBodies}
        \cup {[method |-> "POST", path |-> "/api/auth/logout", body |-> NoBody]}
        \cup {[method |-> "PATCH", path |-> p, body |-> b] :
                p \in {"/api/sites/rec1", "/api/sites/Unauthorized"},
                b \in PatchBodies}

\* cookies a client may send that no login produced: another cookie only, a
\* value without a '.', and a token signed with another key
OtherCookie == <<116, 61, 49>>
ForeignCookies ==
    {OtherCookie,
     CookiePrefix \o <<97, 98, 99>>,
     CookiePrefix \o createSessionToken(EmailA, NameJo, SecretB, 0).token}

\* the records of the remote store
ExistingRecords == {"rec1"}

HttpInit ==
    /\ now = 0
    /\ secret \in {NoSecret, SecretA}
    /\ issue = NoIssue
    /\ held = <<>>
    /\ flipped = FALSE
    /\ ver = NoVerify
    /\ HttpAtRest
    /\ RateAtRest
    /\ AuxAtRest

ArriveStep(r) ==
    /\ pc \in {"idle", "done"}
    /\ pc' = "gate"
    /\ req' = [method |-> r.method, path |-> r.path, body |-> r.body,
                cookie |-> cookie]
    /\ ctx' = NoCtx
    /\ resp' = NoResp
    /\ upd' = NoUpd
    /\ UNCHANGED <<now, secret, codecVars, cookie, owner, rateVars>>

Arrive(r) ==
    /\ ArriveStep(r)
    /\ UNCHANGED auxVars

\* middleware onRequest
GateStep(g) ==
    /\ ctx' = [session |-> g.session, ran |-> g.next, at |-> now]
    /\ pc' = IF g.next THEN "handler" ELSE "done"
    /\ resp' = IF g.next THEN resp ELSE Redirect("/login/")

Gate ==
    /\ pc = "gate"
    /\ GateStep(GateOutcome(req.path, req.cookie, secret, now))
    /\ UNCHANGED <<now, secret, codecVars, cookie, req, upd, owner, rateVars, auxVars>>

\* the pages /members/ and /login/
PageHandler ==
    /\ pc = "handler"
    /\ req.method = "GET"
    /\ req.path \in {"/members/", "/login/"}
    /\ pc' = "done"
    /\ resp' = Json(200, "")
    /\ UNCHANGED <<now, secret, codecVars, cookie, req, ctx, upd, owner, rateVars, auxVars>>

\* POST /api/auth/login: the response
LoginIssued(token) ==
    IF ~token.ok THEN Redirect("/login/?error=server")
    ELSE [status |-> 302, location |-> "/members/",
          setCookie |-> setSessionCookie(token.token), error |-> ""]

LoginPilot(pilot, sessionSecret, t) ==
    IF pilot.threw THEN Redirect("/login/?error=server")
    ELSE IF ~pilot.found THEN Redirect("/login/?error=invalid")
    ELSE LoginIssued(createSessionToken(pilot.email, pilot.name, sessionSecret, t))

\* the handler issuing the token for the email as typed
LoginOutcomeTyped(body, sessionSecret, credentials, random, t) ==
    IF sessionSecret = <<>> THEN Redirect("/login/?error=server")
    ELSE IF body.kind = "bad" THEN Redirect("/login/?error=server")
    ELSE IF body.email = <<>> \/ body.password = <<>>
        THEN Redirect("/login/?error=missing")
    ELSE LoginPilot([authenticatePilot(body.email, body.password, credentials, random)
                        EXCEPT !.email = body.email],
                    sessionSecret, t)

\* the handler testing the fields before the secret
LoginOutcomeFieldsFirst(body, sessionSecret, credentials, random, t) ==
    IF body.kind = "bad" THEN Redirect("/login/?error=server")
    ELSE IF body.email = <<>> \/ body.password = <<>>
        THEN Redirect("/login/?error=missing")
    ELSE IF sessionSecret = <<>> THEN Redirect("/login/?error=server")
    ELSE LoginPilot(authenticatePilot(body.email, body.password, credentials, random),
                    sessionSecret, t)

LoginOutcome(body, sessionSecret, credentials, random, t) ==
    IF sessionSecret = <<>> THEN Redirect("/login/?error=server")
    ELSE IF body.kind = "bad" THEN Redirect("/login/?error=server")
    ELSE IF body.email = <<>> \/ body.password = <<>>
        THEN Redirect("/login/?error=missing")
    ELSE LoginPilot(authenticatePilot(body.email, body.password, credentials, random),
                    sessionSecret, t)

LoginStep(r) ==
    /\ resp' = r
    /\ cookie' = IF r.setCookie = <<>> THEN cookie ELSE CookieSentBack(r.setCookie)

LoginHandler(random) ==
    /\ pc = "handler"
    /\ req.method = "POST"
    /\ req.path = "/api/auth/login"
    /\ LoginStep(LoginOutcome(req.body, secret, ConfiguredCredentials, random, now))
    /\ pc' = "done"
    /\ UNCHANGED <<now, secret, codecVars, req, ctx, upd, owner, rateVars, auxVars>>

\* POST /api/auth/logout
LogoutHandler ==
    /\ pc = "handler"
    /\ req.method = "POST"
    /\ req.path = "/api/auth/logout"
    /\ resp' = [status |-> 302, location |-> "/login/",
                setCookie |-> clearSessionCookie, error |-> ""]
    /\ cookie' = CookieSentBack(clearSessionCookie)
    /\ pc' = "done"
    /\ UNCHANGED <<now, secret, codecVars, req, ctx, upd, owner, rateVars, auxVars>>

\* the client replaces its cookie by one no login produced
Tamper(c) ==
    /\ pc \in {"idle", "done"}
    /\ cookie # c
    /\ cookie' = c
    /\ UNCHANGED <<now, secret, codecVars, pc, req, ctx, resp, upd, owner, rateVars, auxVars>>

\* someone else edits the record's owner in the remote store
Reassign(o) ==
    /\ owner # o
    /\ owner' = o
    /\ UNCHANGED <<now, secret, codecVars, cookie, pc, req, ctx, resp, upd, rateVars, auxVars>>

\* GET /api/sites up to the first outbound call of getSitesForPilot
ListHandler ==
    /\ pc = "handler"
    /\ req.method = "GET"
    /\ req.path = "/api/sites"
    /\ IF ~ctx.session.ok
       THEN /\ pc' = "done"
            /\ resp' = Json(401, "Unauthorized")
       ELSE /\ pc' = "list"
            /\ resp' = resp
    /\ UNCHANGED <<now, secret, codecVars, cookie, req, ctx, upd, owner, rateVars, auxVars>>

\* a page of getSitesForPilot comes back: the fetch failed ("net"), the
\* response is not ok ("notok"), or it is a page with or without an offset
MaxPages == 2

ListResponse(outcome) ==
    /\ pc = "list"
    /\ CASE outcome = "more" ->
              /\ upd.pages + 1 < MaxPages
              /\ upd' = [upd EXCEPT !.pages = @ + 1]
              /\ UNCHANGED <<pc, resp>>
         [] outcome = "last" ->
              /\ upd' = [upd EXCEPT !.pages = @ + 1]
              /\ pc' = "done"
              /\ resp' = Json(200, "")
         [] OTHER ->
              /\ upd' = [upd EXCEPT !.failure = outcome]
              /\ pc' = "done"
              /\ resp' = Json(500, "Failed to fetch sites")
    /\ UNCHANGED <<now, secret, codecVars, cookie, req, ctx, owner, rateVars, auxVars>>

\* PATCH /api/sites/[id] up to the first outbound call of updateSite (the
\* read of the record)
PatchHandler ==
    /\ pc = "handler"
    /\ req.method = "PATCH"
    /\ StartsWith(req.path, "/api/sites/")
    /\ IF ~ctx.session.ok THEN
            /\ pc' = "done"
            /\ upd' = upd
            /\ resp' = Json(401, "Unauthorized")
       ELSE IF RecordIdOf(req.path) = "" THEN
            /\ pc' = "done"
            /\ upd' = upd
            /\ resp' = Json(400, "Missing site ID")
       ELSE IF req.body.kind = "bad" THEN
            /\ pc' = "done"
            /\ upd' = upd
            /\ resp' = Json(ErrorStatus("Unexpected end of JSON input"),
                            "Unexpected end of JSON input")
       ELSE IF req.body.kind = "nofields" THEN
            /\ pc' = "done"
            /\ upd' = upd
            /\ resp' = Json(400, "Missing fields")
       ELSE IF safeFields(req.body.fields) = {} THEN
            /\ pc' = "done"
            /\ upd' = upd
            /\ resp' = Json(ErrorStatus("No valid fields to update"),
                            "No valid fields to update")
       ELSE /\ pc' = "read"
            /\ upd' = [upd EXCEPT !.readIssued = TRUE]
            /\ resp' = resp
    /\ UNCHANGED <<now, secret, codecVars, cookie, req, ctx, owner, rateVars, auxVars>>

\* the read of the record comes back; on an ok response updateSite checks
\* the owner and either throws or issues the PATCH call
ReadResponse(outcome) ==
    /\ pc = "read"
    /\ LET recordId == RecordIdOf(req.path)
       IN  CASE outcome = "net" ->
                  /\ upd' = [upd EXCEPT !.failure = "net"]
                  /\ pc' = "done"
                  /\ resp' = Json(ErrorStatus("fetch failed"), "fetch failed")
             [] outcome = "notok" ->
                  /\ upd' = [upd EXCEPT !.failure = "notok"]
                  /\ pc' = "done"
                  /\ resp' = Json(ErrorStatus(NotFoundMessage(recordId)),
                                  NotFoundMessage(recordId))
             [] OTHER ->
                  /\ recordId \in ExistingRecords
                  /\ IF OwnerMatches(owner, ctx.session.name)
                     THEN /\ upd' = [upd EXCEPT !.readOk = TRUE, !.readOwner = owner,
                                                !.patchIssued = TRUE,
                                                !.sent = safeFields(req.body.fields)]
                          /\ pc' = "patch"
                          /\ resp' = resp
                     ELSE /\ upd' = [upd EXCEPT !.readOk = TRUE, !.readOwner = owner]
                          /\ pc' = "done"
                          /\ resp' = Json(ErrorStatus(UnauthorizedMessage),
                                          UnauthorizedMessage)
    /\ UNCHANGED <<now, secret, codecVars, cookie, req, ctx, owner, rateVars, auxVars>>

\* the statuses and error texts of a PATCH call that is not ok
UpdateErrors ==
    {<<"422", "INVALID_VALUE_FOR_COLUMN">>, <<"401", "Unauthorized">>,
     <<"503", "Service Unavailable">>}

\* the PATCH call comes back: the fetch failed, the response is not ok, or
\* the store applied the update to the record as it is at that moment
PatchResponse(outcome, err) ==
    /\ pc = "patch"
    /\ CASE outcome = "net" ->
              /\ upd' = [upd EXCEPT !.failure = "net"]
              /\ resp' = Json(ErrorStatus("fetch failed"), "fetch failed")
         [] outcome = "notok" ->
              /\ upd' = [upd EXCEPT !.failure = "notok"]
              /\ resp' = Json(ErrorStatus(UpdateErrorMessage(err[1], err[2])),
                              UpdateErrorMessage(err[1], err[2]))
         [] OTHER ->
              /\ upd' = [upd EXCEPT !.applied = TRUE, !.ownerAtApply = owner]
              /\ resp' = Json(200, "")
    /\ pc' = "done"
    /\ UNCHANGED <<now, secret, codecVars, cookie, req, ctx, owner, rateVars, auxVars>>

\* the times at which requests are made: the start, and around the expiry of
\* a token issued at the start
HttpTimes ==
    {SESSION_DURATION_MS - ClockSlack, SESSION_DURATION_MS,
     SESSION_DURATION_MS + ClockSlack}

Next ==
    \/ \E t \in HttpTimes : Tick(t)
    \/ \E r \in Requests : Arrive(r)
    \/ Gate
    \/ PageHandler
    \/ \E r \in RandomSalts : LoginHandler(r)
    \/ LogoutHandler
    \/ ListHandler
    \/ \E o \in {"net", "notok", "more", "last"} : ListResponse(o)
    \/ PatchHandler
    \/ \E o \in {"net", "notok", "ok"} : ReadResponse(o)
    \/ \E o \in {"net", "notok", "ok"}, e \in UpdateErrors : PatchResponse(o, e)
    \/ \E c \in ForeignCookies : Tamper(c)
    \/ \E o \in Owners : Reassign(o)

Spec == HttpInit /\ [][Next]_vars

(***************************************************************************)
(* The rate limiter: concurrent callers of rateLimitedFetch on the one     *)
(* event loop. A caller runs from its entry to the await, and from the     *)
(* timer's firing to the fetch, without interleaving; between the two any  *)
(* other caller may run. A timer fires at or after its delay.              *)
(***************************************************************************)

MIN_REQUEST_INTERVAL == 220

\* the outbound calls of one run
MaxCalls == 3

\* the clock at the start of the run, and how far it is followed
RateStart == 2 * MIN_REQUEST_INTERVAL
RateEnd == RateStart + (MaxCalls + 1) * MIN_REQUEST_INTERVAL

\* the steps the clock advances by
RateSteps == {MIN_REQUEST_INTERVAL \div 2, MIN_REQUEST_INTERVAL - 1, MIN_REQUEST_INTERVAL}

RateInit ==
    /\ now = RateStart
    /\ secret = NoSecret
    /\ issue = NoIssue
    /\ held = <<>>
    /\ flipped = FALSE
    /\ ver = NoVerify
    /\ HttpAtRest
    /\ RateAtRest
    /\ AuxAtRest

RateTick(d) ==
    /\ now + d <= RateEnd
    /\ now' = now + d
    /\ UNCHANGED <<secret, codecVars, httpVars, rateVars, auxVars>>

\* callers inside rateLimitedFetch, suspended at the await
Sleeping == {c \in Callers : rl[c].at = "sleep"}

\* lastRequestTime = Date.now(); return fetch(url, options)
IssueCall ==
    /\ lastRequestTime' = now
    /\ calls' = Append(calls, now)

\* rateLimitedFetch without the wait
EnterNoWait(c) ==
    /\ rl[c].at = "idle"
    /\ Len(calls) + Cardinality(Sleeping) < MaxCalls
    /\ IssueCall
    /\ rl' = rl
    /\ UNCHANGED <<now, secret, codecVars, httpVars, auxVars>>

\* rateLimitedFetch from its entry to the await, or to the fetch when it
\* does not wait
Enter(c) ==
    /\ rl[c].at = "idle"
    /\ Len(calls) + Cardinality(Sleeping) < MaxCalls
    /\ IF now - lastRequestTime < MIN_REQUEST_INTERVAL
       THEN /\ rl' = [rl EXCEPT ![c] =
                        [at |-> "sleep",
                         wake |-> now + (MIN_REQUEST_INTERVAL - (now - lastRequestTime))]]
            /\ UNCHANGED <<lastRequestTime, calls>>
       ELSE /\ IssueCall
            /\ rl' = rl
    /\ UNCHANGED <<now, secret, codecVars, httpVars, auxVars>>

\* the timer of the await fires: rateLimitedFetch from the await to the fetch
Wake(c) ==
    /\ rl[c].at = "sleep"
    /\ now >= rl[c].wake
    /\ IssueCall
    /\ rl' = [rl EXCEPT ![c] = [at |-> "idle", wake |-> 0]]
    /\ UNCHANGED <<now, secret, codecVars, httpVars, auxVars>>

RateNext ==
    \/ \E d \in RateSteps : RateTick(d)
    \/ \E c \in Callers : Enter(c)
    \/ \E c \in Callers : Wake(c)

SpecRate == RateInit /\ [][RateNext]_vars

(***************************************************************************)
(* The library functions called directly: each step is one call of one     *)
(* function on inputs drawn from the sets below, and call holds the        *)
(* inputs and the result.                                                  *)
(***************************************************************************)

\* a token whose payload part is the text p, signed with the secret k
TokenOf(p, k) == SignPayload([ok |-> TRUE, text |-> p], getSigningKey(k)).token

\* JSON texts a payload part may decode to: 5, 0, null, true, [], {}, "s",
\* {"exp":1} and two session payloads
JsonTexts ==
    {<<53>>, <<48>>, <<110, 117, 108, 108>>, <<116, 114, 117, 101>>, <<91, 93>>,
     <<123, 125>>, <<34, 115, 34>>, <<123, 34, 101, 120, 112, 34, 58, 49, 125>>,
     JsonStringify([email |-> <<97, 64, 120>>, name |-> <<74, 111>>, exp |-> 1]),
     JsonStringify([email |-> <<97, 64, 120>>, name |-> <<74, 111>>,
                    exp |-> SESSION_DURATION_MS])}

\* payload parts that are not the base64 of a JSON text: two at signs, "abcde",
\* the base64 of "{bad", and the empty text
BrokenParts ==
    {<<64, 64>>, <<97, 98, 99, 100, 101>>, btoa(<<123, 98, 97, 100>>).text, <<>>}

\* texts that are no signed token: "", "abc", ".", "a.b.c", "e30=.0",
\* "e30=.zz", and a signed token followed by ".00"
UnsignedTexts ==
    {<<>>, <<97, 98, 99>>, <<46>>, <<97, 46, 98, 46, 99>>,
     <<101, 51, 48, 61, 46, 48>>, <<101, 51, 48, 61, 46, 122, 122>>,
     TokenOf(btoa(<<123, 125>>).text, <<107, 49>>) \o <<46, 48, 48>>}

\* the inputs of verifySessionToken: the token, the secret it was signed
\* with (<<>> for none) and whether its payload part decodes to a JSON text
TokenCases ==
    {[token |-> TokenOf(btoa(p).text, k), signedWith |-> k, decodes |-> TRUE] :
        p \in JsonTexts, k \in {<<107, 49>>, <<107, 50>>}}
    \cup {[token |-> TokenOf(p, k), signedWith |-> k, decodes |-> FALSE] :
            p \in BrokenParts, k \in {<<107, 49>>, <<107, 50>>}}
    \cup {[token |-> x, signedWith |-> <<>>, decodes |-> FALSE] : x \in UnsignedTexts}

\* PILOT_CREDENTIALS with two entries of the same email up to letter case:
\* a(at)x / Jo / pw1, then A(at)X / Al / pw2
DuplicateCredentials ==
    Some(<<91>> \o CredentialFor(<<97, 64, 120>>, <<74, 111>>, PasswordA, SaltA)
             \o <<44>> \o CredentialFor(EmailAUpper, <<65, 108>>, PasswordB, SaltB)
             \o <<93>>)

\* values of PILOT_CREDENTIALS: absent, empty, "not json", {}, null, 5,
\* "abc" (a JSON string), [], [null], and the two lists above
CredentialConfigs ==
    {None, Some(<<>>), Some(<<110, 111, 116, 32, 106, 115, 111, 110>>),
     Some(<<123, 125>>), Some(<<110, 117, 108, 108>>), Some(<<53>>),
     Some(<<34, 97, 98, 99, 34>>), Some(<<91, 93>>), Some(<<91, 110, 117, 108, 108, 93>>),
     ConfiguredCredentials, DuplicateCredentials}

\* salt arguments of hashPassword: omitted, "", "ab", "abc", "AB" and the
\* hex of a random salt
SaltArguments ==
    {None, Some(<<>>), Some(SaltA), Some(<<97, 98, 99>>), Some(<<65, 66>>)}
        \cup {Some(bufferToHex(r)) : r \in RandomSalts}

\* passwords: "pw1", "pw2", "pw3", "pw1 " and "Pw1"
CallPasswords == {PasswordA, PasswordB, PasswordC, <<112, 119, 49, 32>>, <<80, 119, 49>>}

\* owner fields and session names of the ownership check: "Jo Smith",
\* "Jo Smith ", " Jo Smith", tab "Jo Smith" newline, "Jo  Smith", "jo smith",
\* "JoSmith", "", " " and an absent field
OwnerTexts ==
    {<<74, 111, 32, 83, 109, 105, 116, 104>>,
     <<74, 111, 32, 83, 109, 105, 116, 104, 32>>,
     <<32, 74, 111, 32, 83, 109, 105, 116, 104>>,
     <<9>> \o <<74, 111, 32, 83, 109, 105, 116, 104>> \o <<10>>,
     <<74, 111, 32, 32, 83, 109, 105, 116, 104>>,
     <<106, 111, 32, 115, 109, 105, 116, 104>>,
     <<74, 111, 83, 109, 105, 116, 104>>, <<>>, <<32>>}

\* Cookie header values handed to getSessionCookie
CookieTexts ==
    {
     \* "pilot_session=ab.cd"
     <<112, 105, 108, 111, 116, 95, 115, 101, 115, 115, 105, 111, 110, 61,
      97, 98, 46, 99, 100>>,
     \* "a=1; pilot_session=ab.cd"
     <<97, 61, 49, 59, 32, 112, 105, 108, 111, 116, 95, 115, 101, 115,
      115, 105, 111, 110, 61, 97, 98, 46, 99, 100>>,
     \* "pilot_session_x=ab.cd"
     <<112, 105, 108, 111, 116, 95, 115, 101, 115, 115, 105, 111, 110, 95,
      120, 61, 97, 98, 46, 99, 100>>,
     \* "pilot_session_x=1; pilot_session=ab.cd"
     <<112, 105, 108, 111, 116, 95, 115, 101, 115, 115, 105, 111, 110, 95,
      120, 61, 49, 59, 32, 112, 105, 108, 111, 116, 95, 115, 101,
      115, 115, 105, 111, 110, 61, 97, 98, 46, 99, 100>>,
     \* "pilot_session=a=b"
     <<112, 105, 108, 111, 116, 95, 115, 101, 115, 115, 105, 111, 110, 61,
      97, 61, 98>>,
     \* "pilot_session=t1; pilot_session=t2"
     <<112, 105, 108, 111, 116, 95, 115, 101, 115, 115, 105, 111, 110, 61,
      116, 49, 59, 32, 112, 105, 108, 111, 116, 95, 115, 101, 115,
      115, 105, 111, 110, 61, 116, 50>>,
     \* "xpilot_session=ab.cd"
     <<120, 112, 105, 108, 111, 116, 95, 115, 101, 115, 115, 105, 111,
      110, 61, 97, 98, 46, 99, 100>>,
     \* "pilot_session"
     <<112, 105, 108, 111, 116, 95, 115, 101, 115, 115, 105, 111, 110>>,
     \* "Pilot_session=ab.cd"
     <<80, 105, 108, 111, 116, 95, 115, 101, 115, 115, 105, 111, 110, 61,
      97, 98, 46, 99, 100>>,
     \* "pilot_session=ab.cd ; b=2"
     <<112, 105, 108, 111, 116, 95, 115, 101, 115, 115, 105, 111, 110, 61,
      97, 98, 46, 99, 100, 32, 59, 32, 98, 61, 50>>,
     \* "a=pilot_session=ab.cd"
     <<97, 61, 112, 105, 108, 111, 116, 95, 115, 101, 115, 115, 105, 111,
      110, 61, 97, 98, 46, 99, 100>>,
     \* "pilot_session =ab.cd"
     <<112, 105, 108, 111, 116, 95, 115, 101, 115, 115, 105, 111, 110, 32,
      61, 97, 98, 46, 99, 100>>,
     \* "pilot_session="
     <<112, 105, 108, 111, 116, 95, 115, 101, 115, 115, 105, 111, 110,
      61>>,
     \* "a=1;pilot_session=ab.cd;b=2"
     <<97, 61, 49, 59, 112, 105, 108, 111, 116, 95, 115, 101, 115, 115,
      105, 111, 110, 61, 97, 98, 46, 99, 100, 59, 98, 61, 50>>
    }

\* tokens handed to setSessionCookie: "ab.cd", and tokens as issued
CookieTokens ==
    {<<97, 98, 46, 99, 100>>,
     createSessionToken(<<97, 64, 120>>, <<74, 111>>, <<107, 49>>, 0).token,
     createSessionToken(<<98, 64, 120>>, <<65, 108>>, <<107, 50>>, 1).token}

\* the headers of the calls: absent, empty, a given text, or the header
\* setSessionCookie or clearSessionCookie builds
CookieCases ==
    {[header |-> None, built |-> FALSE, token |-> <<>>],
     [header |-> Some(<<>>), built |-> FALSE, token |-> <<>>],
     [header |-> Some(clearSessionCookie), built |-> FALSE, token |-> <<>>]}
        \cup {[header |-> Some(h), built |-> FALSE, token |-> <<>>] : h \in CookieTexts}
        \cup {[header |-> Some(setSessionCookie(t)), built |-> TRUE, token |-> t] :
                t \in CookieTokens}

CallsInit ==
    /\ now = 0
    /\ secret = <<>>
    /\ issue = [called |-> FALSE, email |-> <<>>, name |-> <<>>, at |-> 0,
                ok |-> FALSE, token |-> <<>>]
    /\ held = <<>>
    /\ flipped = FALSE
    /\ ver = [called |-> FALSE, at |-> 0, token |-> <<>>, flipped |-> FALSE,
              res |-> NullSession]
    /\ HttpAtRest
    /\ RateAtRest
    /\ AuxAtRest

\* the functions keep no state: a run is one call
CallUnchanged == UNCHANGED <<now, secret, codecVars, httpVars, rateVars, first>>

CallVerifySessionToken(c, k, t) ==
    /\ call = NoCall
    /\ call' = [fn |-> "verifySessionToken", token |-> c.token,
                signedWith |-> c.signedWith, decodes |-> c.decodes,
                secret |-> k, at |-> t, res |-> verifySessionToken(c.token, k, t)]
    /\ CallUnchanged

CallGetCredentials(raw) ==
    /\ call = NoCall
    /\ call' = [fn |-> "getCredentials", raw |-> raw, res |-> getCredentials(raw)]
    /\ CallUnchanged

CallAuthenticatePilot(email, password, raw, random) ==
    /\ call = NoCall
    /\ call' = [fn |-> "authenticatePilot", email |-> email, password |-> password,
                raw |-> raw, res |-> authenticatePilot(email, password, raw, random)]
    /\ CallUnchanged

\* hashPassword called twice with the same arguments
CallHashPassword(password, salt, r1, r2) ==
    /\ call = NoCall
    /\ call' = [fn |-> "hashPassword", password |-> password, salt |-> salt,
                res1 |-> hashPassword(password, salt, r1),
                res2 |-> hashPassword(password, salt, r2)]
    /\ CallUnchanged

\* verifyPassword(p2, h.hash, h.salt) for a result h of hashPassword
VerifyAgainst(p1, p2, h, random) ==
    [fn |-> "verifyPassword", p1 |-> p1, p2 |-> p2, hash |-> h.hash, salt |-> h.salt,
     res |-> verifyPassword(p2, Some(h.hash), Some(h.salt), random)]

CallVerifyPassword(p1, p2, r1, r2) ==
    /\ call = NoCall
    /\ call' = VerifyAgainst(p1, p2, hashPassword(p1, None, r1), r2)
    /\ CallUnchanged

\* the ownership check of updateSite on a record's field and a session name
CallOwnerMatches(field, pilotName) ==
    /\ call = NoCall
    /\ call' = [fn |-> "OwnerMatches", field |-> field, pilotName |-> pilotName,
                res |-> OwnerMatches(field, pilotName)]
    /\ CallUnchanged

CallGetSessionCookie(c) ==
    /\ call = NoCall
    /\ call' = [fn |-> "getSessionCookie", header |-> c.header, built |-> c.built,
                token |-> c.token,
                res |-> getSessionCookie(IF c.header.has THEN c.header.val ELSE <<>>)]
    /\ CallUnchanged

CallsNext ==
    \/ \E c \in TokenCases, k \in {<<>>, <<107, 49>>, <<107, 50>>}, t \in {0, 1, 2} :
          CallVerifySessionToken(c, k, t)
    \/ \E raw \in CredentialConfigs : CallGetCredentials(raw)
    \/ \E e \in {<<97, 64, 120>>, EmailAUpper, EmailZ}, p \in CallPasswords,
          raw \in CredentialConfigs, r \in RandomSalts :
          CallAuthenticatePilot(e, p, raw, r)
    \/ \E p \in CallPasswords, salt \in SaltArguments, r1 \in RandomSalts,
          r2 \in RandomSalts :
          CallHashPassword(p, salt, r1, r2)
    \/ \E p1 \in CallPasswords, p2 \in CallPasswords, r1 \in RandomSalts,
          r2 \in RandomSalts :
          CallVerifyPassword(p1, p2, r1, r2)
    \/ \E f \in {None} \cup {Some(o) : o \in OwnerTexts}, n \in OwnerTexts :
          CallOwnerMatches(f, n)
    \/ \E c \in CookieCases : CallGetSessionCookie(c)

SpecCalls == CallsInit /\ [][CallsNext]_vars

(***************************************************************************)
(* Claims about the codec (checked under SpecCodec)                        *)
(***************************************************************************)

\* C5: verifySessionToken returns null for every correctly signed token whose
\* exp is at or before the current time, the instant exp = now included.
C5_RejectsAtOrBeforeNow ==
    (ver.called /\ ~ver.flipped /\ issue.at + SESSION_DURATION_MS <= ver.at)
        => ~ver.res.ok

\* C6: for a token accepted under the secret, the token with any single bit
\* of its signature text changed is rejected.
C6_AnySignatureBitFlipRejected ==
    (ver.called /\ ver.flipped /\ verifySessionToken(issue.token, secret, ver.at).ok)
        => ~ver.res.ok

\* C10: createSessionToken never fails, and verifying its token before expiry
\* returns the same email and name with exp = issuance time + 7 days.
C10_IssueNeverFailsAndRoundTrips ==
    /\ issue.called => issue.ok
    /\ (ver.called /\ ~ver.flipped /\ ver.at < issue.at + SESSION_DURATION_MS)
          => /\ ver.res.ok
             /\ ver.res.email = issue.email
             /\ ver.res.name = issue.name
             /\ ver.res.exp = issue.at + SESSION_DURATION_MS

(***************************************************************************)
(* Claims about the HTTP surface (checked under Spec)                      *)
(***************************************************************************)

\* C1: on a protected path the gate calls next() only with a configured
\* secret, an extracted pilot_session cookie and a token that verifies, and
\* then attaches exactly the verified session; in every other case the
\* response is the redirect to /login/, no handler runs and no session is
\* attached.
C1_GateAdmitsOnlyVerifiedSession ==
    /\ pc \in {"handler", "list", "read", "patch"} => ctx.ran
    /\ (pc \notin {"idle", "gate"} /\ IsProtected(req.path)) =>
          LET token == getSessionCookie(req.cookie)
              session == verifySessionToken(token.value, secret, ctx.at)
          IN  IF secret # <<>> /\ token.found /\ session.ok
              THEN ctx.ran /\ ctx.session = session
              ELSE /\ ~ctx.ran
                   /\ ctx.session = NullSession
                   /\ pc = "done"
                   /\ resp = Redirect("/login/")

\* a verified session of "Jo" was attached and a protected handler is running
C1_Witness ==
    /\ pc = "handler"
    /\ IsProtected(req.path)
    /\ ctx.ran
    /\ ctx.session.ok
    /\ ctx.session.name = NameJo

\* C2: updateSite issues its PATCH call only after a read of the record
\* whose trimmed owner equalled the session's name; when the trimmed owner
\* differs or the field is missing, the 'Unauthorized' error is raised and no
\* PATCH call is issued.
C2_PatchOnlyAfterMatchingRead ==
    /\ upd.patchIssued =>
          /\ upd.readOk
          /\ upd.readOwner.has
          /\ Trim(upd.readOwner.val) = ctx.session.name
    /\ (upd.readOk /\ ~(upd.readOwner.has /\ Trim(upd.readOwner.val) = ctx.session.name))
          => /\ ~upd.patchIssued
             /\ pc = "done"
             /\ resp.error = "Unauthorized: site does not belong to this pilot"

\* the PATCH call was issued after a read that returned the owner "Jo "
C2_Witness ==
    /\ pc = "patch"
    /\ upd.patchIssued
    /\ upd.readOwner = Field(NameJo \o <<32>>)

\* C3: no mutation is applied to a record whose owner, at the moment the
\* mutation is applied, differs from the session's name, also when the owner
\* is changed between the ownership read and the PATCH call.
C3_NoMutationOnForeignRecord ==
    upd.applied =>
        /\ upd.ownerAtApply.has
        /\ Trim(upd.ownerAtApply.val) = ctx.session.name

\* C7: a request to /api/sites or /api/sites/[id] without a valid session
\* cookie (none, invalid or expired) is answered with status 401.
C7_NoValidSessionGets401 ==
    (/\ pc = "done"
     /\ StartsWith(req.path, "/api/sites")
     /\ secret # <<>>
     /\ LET token == getSessionCookie(req.cookie)
        IN  ~token.found \/ ~verifySessionToken(token.value, secret, ctx.at).ok)
        => resp.status = 401

\* C8: when the ownership check fails for a PATCH /api/sites/[id] request
\* with a valid session, the response has status 403 and no update has been
\* applied to the record.
C8_OwnershipFailureIs403 ==
    (/\ pc = "done"
     /\ req.method = "PATCH"
     /\ ctx.session.ok
     /\ upd.readOk
     /\ ~(upd.readOwner.has /\ Trim(upd.readOwner.val) = ctx.session.name))
        => /\ resp.status = 403
           /\ ~upd.patchIssued
           /\ ~upd.applied

\* "Jo" asked to update a record read as owned by "Al"
C8_Witness ==
    /\ pc = "done"
    /\ req.method = "PATCH"
    /\ ctx.session.name = NameJo
    /\ upd.readOk
    /\ upd.readOwner = Field(NameAl)
    /\ resp.status = 403

\* C9: during PATCH /api/sites/[id] every failure of the remote store (fetch
\* failed, read not ok, update not ok) gives status 500, and status 403 is
\* given only when the ownership check failed.
C9_CollaboratorFailureIs500 ==
    (pc = "done" /\ req.method = "PATCH") =>
        /\ upd.failure \in {"net", "notok"} => resp.status = 500
        /\ resp.status = 403 =>
              /\ upd.readOk
              /\ ~(upd.readOwner.has /\ Trim(upd.readOwner.val) = ctx.session.name)

(***************************************************************************)
(* Claims about the rate limiter (checked under SpecRate)                  *)
(***************************************************************************)

\* C4: any two outbound calls made through rateLimitedFetch are issued at
\* least MIN_REQUEST_INTERVAL apart, whatever the interleaving of callers.
C4_CallsSpacedByMinInterval ==
    \A i \in 1..Len(calls), j \in 1..Len(calls) :
        i < j => calls[j] - calls[i] >= MIN_REQUEST_INTERVAL

(***************************************************************************)
(* Claims about the library functions (checked under SpecCalls)            *)
(***************************************************************************)

\* C15: authenticatePilot returns the first credential of the list whose
\* email equals the claimed email ignoring letter case, and only if the
\* password verifies against it; it returns null when no email matches or
\* when that first credential's password check fails, even if a later
\* credential of the same email has the password.
C15_FirstMatchDecides ==
    (call.fn = "authenticatePilot"
        /\ call.raw \in {ConfiguredCredentials, DuplicateCredentials}) =>
        LET known ==
                IF call.raw = ConfiguredCredentials
                THEN << [email |-> <<97, 64, 120>>, name |-> <<74, 111>>,
                         password |-> <<112, 119, 49>>],
                        [email |-> <<98, 64, 120>>, name |-> <<65, 108>>,
                         password |-> <<112, 119, 50>>],
                        [email |-> <<108, 64, 120>>, name |-> <<321, 117>>,
                         password |-> <<112, 119, 51>>] >>
                ELSE << [email |-> <<97, 64, 120>>, name |-> <<74, 111>>,
                         password |-> <<112, 119, 49>>],
                        [email |-> <<65, 64, 88>>, name |-> <<65, 108>>,
                         password |-> <<112, 119, 50>>] >>
            hits == {i \in 1..Len(known) : ToLower(known[i].email) = ToLower(call.email)}
        IN  IF hits = {} THEN call.res = NoPilot
            ELSE LET i == CHOOSE i \in hits : \A j \in hits : i <= j
                 IN  IF call.password = known[i].password
                     THEN call.res = [threw |-> FALSE, found |-> TRUE,
                                      email |-> known[i].email, name |-> known[i].name]
                     ELSE call.res = NoPilot

\* "a@x" with the password of the second entry of that email: null
C15_Witness ==
    /\ call.fn = "authenticatePilot"
    /\ call.raw = DuplicateCredentials
    /\ call.email = <<97, 64, 120>>
    /\ call.password = PasswordB
    /\ call.res = NoPilot

\* C16: for a salt produced by hashPassword, verifyPassword(p2,
\* hashPassword(p1, s).hash, s) is true exactly when p1 = p2.
C16_VerifyIffSamePassword ==
    call.fn = "verifyPassword" =>
        /\ ~call.res.threw
        /\ call.res.valid <=> (call.p1 = call.p2)

\* "pw1" verified against the hash of "pw1 " under a generated salt: false
C16_Witness ==
    /\ call.fn = "verifyPassword"
    /\ call.p1 = <<112, 119, 49, 32>>
    /\ call.p2 = <<112, 119, 49>>
    /\ Len(call.salt) = 32
    /\ ~call.res.valid

\* C17: two calls of hashPassword with the same password and the same
\* supplied salt return the same hash and salt, for every supplied salt, the
\* empty string included.
C17_HashDeterministicInSuppliedSalt ==
    (call.fn = "hashPassword" /\ call.salt.has) => call.res1 = call.res2

\* C18: verifySessionToken returns a Session or null for every token and
\* secret, and null whenever the token has not exactly two parts, the
\* signature does not verify, or the payload part is not the base64 of a
\* JSON text.
C18_VerifyTotalAndFailsClosed ==
    call.fn = "verifySessionToken" =>
        /\ \/ call.res = NullSession
           \/ /\ call.res.kind = "object"
              /\ call.res.hasEmail
              /\ call.res.hasName
              /\ call.res.hasExp
        /\ Cardinality({i \in 1..Len(call.token) : call.token[i] = 46}) # 1
              => call.res = NullSession
        /\ call.signedWith # call.secret => call.res = NullSession
        /\ ~call.decodes => call.res = NullSession

\* C19: the ownership check passes exactly when the record has the owner
\* field and its value is the session's name between leading and trailing
\* white space only, the name itself being compared as it is.
C19_OwnerCheckTrimsOwnerOnly ==
    call.fn = "OwnerMatches" =>
        LET v == call.field.val
            n == call.pilotName
        IN  call.res <=>
                /\ call.field.has
                /\ n # <<>> => (~IsWhite(n[1]) /\ ~IsWhite(n[Len(n)]))
                /\ \E i \in 1..(Len(v) + 1) :
                      /\ i + Len(n) - 1 <= Len(v)
                      /\ SubSeq(v, i, i + Len(n) - 1) = n
                      /\ \A k \in 1..(i - 1) : IsWhite(v[k])
                      /\ \A k \in (i + Len(n))..Len(v) : IsWhite(v[k])

\* owner "Jo Smith " passes for the session name "Jo Smith"
C19_Witness ==
    /\ call.fn = "OwnerMatches"
    /\ call.field = Some(<<74, 111, 32, 83, 109, 105, 116, 104, 32>>)
    /\ call.pilotName = <<74, 111, 32, 83, 109, 105, 116, 104>>
    /\ call.res

\* C20: getCredentials returns a list in every case: the empty list when
\* PILOT_CREDENTIALS is absent, empty or not parseable, else the parsed list.
C20_GetCredentialsReturnsList ==
    call.fn = "getCredentials" =>
        /\ call.res.k = "array"
        /\ (~call.raw.has \/ call.raw.val = <<>>) => call.res = JArray(<<>>)
        /\ (call.raw.has /\ ~JsonParseText(call.raw.val).ok) => call.res = JArray(<<>>)

(***************************************************************************)
(* Claims about the login handler (checked under Spec)                     *)
(***************************************************************************)

\* C13: the login handler answers with a Set-Cookie only when a secret is
\* configured, email and password are both non-empty and the pair belongs to
\* a stored credential; the response is then the 302 to /members/ and the
\* cookie holds a token made for the stored credential's email and name, not
\* for the email as typed.
C13_CookieOnlyOnAuthenticatedLogin ==
    (pc = "done" /\ req.method = "POST" /\ req.path = "/api/auth/login"
        /\ resp.setCookie # <<>>) =>
        /\ secret # <<>>
        /\ req.body.kind = "form"
        /\ req.body.email # <<>>
        /\ req.body.password # <<>>
        /\ \E c \in {[email |-> <<97, 64, 120>>, name |-> <<74, 111>>,
                      password |-> <<112, 119, 49>>],
                     [email |-> <<98, 64, 120>>, name |-> <<65, 108>>,
                      password |-> <<112, 119, 50>>]} :
              /\ ToLower(req.body.email) = c.email
              /\ req.body.password = c.password
              /\ \E t \in ClockPoints :
                    /\ t <= now
                    /\ resp = [status |-> 302, location |-> "/members/",
                               setCookie |->
                                   setSessionCookie(
                                       createSessionToken(c.email, c.name, secret, t).token),
                               error |-> ""]

\* "A@X" typed with the right password: the cookie is set
C13_Witness ==
    /\ pc = "done"
    /\ req.method = "POST"
    /\ req.path = "/api/auth/login"
    /\ req.body.email = EmailAUpper
    /\ resp.setCookie # <<>>

\* C14: the login handler's failures: no secret gives error=server whatever
\* the fields are; with a secret, a missing email or password gives
\* error=missing, an unknown email and a wrong password both give
\* error=invalid, and an exception (an unreadable body, a token that cannot
\* be encoded) gives error=server.
C14_LoginFailureOutcomes ==
    (pc = "done" /\ req.method = "POST" /\ req.path = "/api/auth/login") =>
        LET b == req.body
            known == {[email |-> <<97, 64, 120>>, password |-> <<112, 119, 49>>],
                      [email |-> <<98, 64, 120>>, password |-> <<112, 119, 50>>],
                      [email |-> <<108, 64, 120>>, password |-> <<112, 119, 51>>]}
            failure(e) == [status |-> 302, location |-> "/login/?error=" \o e,
                           setCookie |-> <<>>, error |-> ""]
            given == b.kind = "form" /\ b.email # <<>> /\ b.password # <<>>
            matches == \E c \in known :
                          ToLower(b.email) = c.email /\ b.password = c.password
        IN  /\ secret = <<>> => resp = failure("server")
            /\ (secret # <<>> /\ b.kind = "bad") => resp = failure("server")
            /\ (secret # <<>> /\ b.kind = "form" /\ ~given) => resp = failure("missing")
            /\ (secret # <<>> /\ given /\ ~matches) => resp = failure("invalid")
            /\ (secret # <<>> /\ given /\ b.email = <<108, 64, 120>> /\ matches)
                  => resp = failure("server")

\* no secret and no email: error=server
C14_Witness ==
    /\ pc = "done"
    /\ req.method = "POST"
    /\ req.path = "/api/auth/login"
    /\ secret = <<>>
    /\ req.body.kind = "form"
    /\ req.body.email = <<>>
    /\ resp.location = "/login/?error=server"

(***************************************************************************)
(* The gate over a sequence of requests, with the secret replaced between  *)
(* requests and one earlier decision kept for comparison                   *)
(***************************************************************************)

GateBodies ==
    {[kind |-> "form", email |-> EmailAUpper, password |-> PasswordA, fields |-> {}],
     [kind |-> "form", email |-> EmailA, password |-> PasswordC, fields |-> {}]}

GateRequests ==
    {[method |-> "GET", path |-> p, body |-> NoBody] : p \in {"/members/", "/login/"}}
        \cup {[method |-> "POST", path |-> "/api/auth/login", body |-> b] :
                b \in GateBodies}
        \cup {[method |-> "POST", path |-> "/api/auth/logout", body |-> NoBody]}

GateInit ==
    /\ now = 0
    /\ secret = SecretA
    /\ issue = NoIssue
    /\ held = <<>>
    /\ flipped = FALSE
    /\ ver = NoVerify
    /\ HttpAtRest
    /\ RateAtRest
    /\ AuxAtRest

\* the times of this run: the start, and just before and just after the
\* expiry of a token issued at the start
GateTimes == {SESSION_DURATION_MS - ClockSlack, SESSION_DURATION_MS + ClockSlack}

\* the cookie no login of this run produced: a token issued under "k2"
GateForeignCookie ==
    CookiePrefix \o createSessionToken(EmailA, NameJo, SecretB, 0).token

\* SESSION_SECRET is replaced: a new deployment, which serves no request of
\* the old one
Rotate(k) ==
    /\ pc \in {"idle", "done"}
    /\ k # secret
    /\ secret' = k
    /\ pc' = "idle"
    /\ req' = NoReq
    /\ ctx' = NoCtx
    /\ resp' = NoResp
    /\ upd' = NoUpd
    /\ UNCHANGED <<now, codecVars, cookie, owner, rateVars, auxVars>>

\* the gate has decided the request in flight
Decided == pc \in {"handler", "done"}

\* the inputs and the outcome of the decision just made
Decision ==
    [set |-> TRUE, path |-> req.path, token |-> getSessionCookie(req.cookie),
     secret |-> secret, at |-> ctx.at, ran |-> ctx.ran, session |-> ctx.session,
     later |-> 0]

\* the requests counted after the kept decision
MaxLater == 2

\* a request arrives; it is counted when a decision is kept
GateArrive(r) ==
    /\ ArriveStep(r)
    /\ first' = IF first.set /\ first.later < MaxLater
                THEN [first EXCEPT !.later = @ + 1]
                ELSE first
    /\ UNCHANGED call

\* one decision of the run is kept
Remember ==
    /\ Decided
    /\ ~first.set
    /\ first' = Decision
    /\ UNCHANGED <<now, secret, codecVars, httpVars, rateVars, call>>

GateNext ==
    \/ \E t \in GateTimes : Tick(t)
    \/ \E r \in GateRequests : GateArrive(r)
    \/ Gate
    \/ PageHandler
    \/ \E r \in RandomSalts : LoginHandler(r)
    \/ LogoutHandler
    \/ Tamper(GateForeignCookie)
    \/ \E k \in {SecretA, SecretB} : Rotate(k)
    \/ Remember

SpecGate == GateInit /\ [][GateNext]_vars

C21_CookieFoundByExactName ==
    call.fn = "getSessionCookie" =>
        LET h == IF call.header.has THEN call.header.val ELSE <<>>
            \* the entry is h[a..b]: between two semicolons or the ends
            isEntry(a, b) ==
                /\ a = 1 \/ h[a - 1] = 59
                /\ b = Len(h) \/ h[b + 1] = 59
                /\ \A k \in a..b : h[k] # 59
            \* h[a..b] is white space, pilot_session, '=' at e, and more
            named(a, b, e) ==
                /\ e - Len(SESSION_COOKIE_NAME) >= a
                /\ e <= b
                /\ h[e] = 61
                /\ SubSeq(h, e - Len(SESSION_COOKIE_NAME), e - 1) = SESSION_COOKIE_NAME
                /\ \A k \in a..(e - Len(SESSION_COOKIE_NAME) - 1) : IsWhite(h[k])
            hits == {x \in (1..Len(h)) \X (1..Len(h)) \X (1..Len(h)) :
                        isEntry(x[1], x[2]) /\ named(x[1], x[2], x[3])}
        IN  /\ (hits = {}) <=> ~call.res.found
            /\ hits # {} =>
                  LET x == CHOOSE x \in hits : \A y \in hits : x[1] <= y[1]
                      v == call.res.value
                  IN  /\ v = SubSeq(h, x[3] + 1, x[3] + Len(v))
                      /\ x[3] + Len(v) <= x[2]
                      /\ \A k \in (x[3] + Len(v) + 1)..x[2] : IsWhite(h[k])
                      /\ v # <<>> => ~IsWhite(v[Len(v)])
            /\ call.built => call.res = [found |-> TRUE, value |-> call.token]

\* "pilot_session_x=1; pilot_session=ab.cd" gives "ab.cd"
C21_Witness ==
    /\ call.fn = "getSessionCookie"
    /\ call.header.has
    /\ Len(call.header.val) > Len(SESSION_COOKIE_NAME) + 2
    /\ SubSeq(call.header.val, 1, Len(SESSION_COOKIE_NAME) + 2)
          = SESSION_COOKIE_NAME \o <<95, 120>>
    /\ call.res = [found |-> TRUE, value |-> <<97, 98, 46, 99, 100>>]

(***************************************************************************)
(* Claims about the gate and the record endpoints (checked under Spec)     *)
(***************************************************************************)

\* C22: a request to /login/, /api/auth/login or /api/auth/logout is passed
\* to its handler by the gate with no session attached, whatever cookie it
\* carries and whether or not a secret is configured.
C22_UnprotectedPassesWithoutSession ==
    (pc \notin {"idle", "gate"}
        /\ req.path \in {"/login/", "/api/auth/login", "/api/auth/logout"}) =>
        /\ ctx.ran
        /\ ctx.session = NullSession
        /\ pc \in {"handler", "done"}
        /\ pc = "done" => (resp.status # 0 /\ resp # Redirect("/login/"))

\* /login/ requested with a cookie that verifies: the handler runs, no
\* session is attached
C22_Witness ==
    /\ pc = "handler"
    /\ req.path = "/login/"
    /\ secret # <<>>
    /\ verifySessionToken(getSessionCookie(req.cookie).value, secret, ctx.at).ok
    /\ ctx.ran
    /\ ctx.session = NullSession

\* C23: the PATCH call of updateSite carries exactly the submitted fields
\* named in the allowlist, and at least one; when none of the submitted
\* fields is in the allowlist the endpoint answers with the error 'No valid
\* fields to update' and neither the read of the record nor the PATCH call
\* has been made.
C23_OnlyAllowlistedFieldsSent ==
    (pc \in {"read", "patch", "done"} /\ req.method = "PATCH"
        /\ req.body.kind = "fields") =>
        LET allowed == req.body.fields \cap
                          {"Approval Status", "Scheduling Window", "Flown Date",
                           "Data Uploaded", "H&S Completed Date"}
        IN  /\ upd.patchIssued => (upd.sent = allowed /\ allowed # {})
            /\ ~upd.patchIssued => upd.sent = {}
            /\ (ctx.ran /\ allowed = {}) =>
                  /\ pc = "done"
                  /\ ~upd.readIssued
                  /\ ~upd.patchIssued
                  /\ resp.error = "No valid fields to update"
            /\ (ctx.ran /\ allowed # {}) => upd.readIssued

\* 'Approval Status' and 'Site Name' submitted: only 'Approval Status' sent
C23_Witness ==
    /\ upd.patchIssued
    /\ req.body.fields = {"Approval Status", "Site Name"}
    /\ upd.sent = {"Approval Status"}

(***************************************************************************)
(* The gate and a client that follows redirects: a 302 response is always  *)
(* followed by the GET of its Location, as a browser does                  *)
(***************************************************************************)

\* the path of a Location: the text before the first '?'
PathOf(location) ==
    IF \E i \in 1..Len(location) : SubSeq(location, i, i) = "?"
    THEN SubSeq(location, 1,
                (CHOOSE i \in 1..Len(location) :
                    /\ SubSeq(location, i, i) = "?"
                    /\ \A j \in 1..(i - 1) : SubSeq(location, j, j) # "?") - 1)
    ELSE location

\* the client makes a request of its own choice; the last response was no
\* redirect
FollowRequest(r) ==
    /\ pc = "done" => resp.status # 302
    /\ ArriveStep(r)
    /\ first' = NoFirst
    /\ UNCHANGED call

\* the client follows the redirect it received; when the redirect is the
\* gate's, the decision is kept
FollowRedirect ==
    /\ pc = "done"
    /\ resp.status = 302
    /\ ArriveStep([method |-> "GET", path |-> PathOf(resp.location), body |-> NoBody])
    /\ first' = IF ctx.ran THEN NoFirst ELSE Decision
    /\ UNCHANGED call

FollowNext ==
    \/ \E t \in GateTimes : Tick(t)
    \/ \E r \in GateRequests : FollowRequest(r)
    \/ FollowRedirect
    \/ Gate
    \/ PageHandler
    \/ \E r \in RandomSalts : LoginHandler(r)
    \/ LogoutHandler
    \/ Tamper(GateForeignCookie)

\* the middleware and the handlers run to completion, and the client follows
\* every redirect. Gate is enabled exactly when pc = "gate", a handler exactly
\* when pc = "handler", and each of their steps leaves that position: their
\* weak fairness is that the request in flight is in neither position for
\* ever.
SpecFollow ==
    /\ HttpInit
    /\ [][FollowNext]_vars
    /\ []<>(pc # "gate")
    /\ []<>(pc # "handler")
    /\ WF_vars(FollowRedirect)

\* the gate has answered the request in flight with its redirect
GateRedirected == pc = "done" /\ ~ctx.ran

\* C24: every redirect of the gate targets /login/; /login/ and the login
\* and logout endpoints are passed through by the gate; and a client that
\* follows a redirect of the gate gets the login page on its next request,
\* whatever cookie it carries: no chain of redirects of the gate goes on.
C24_GateRedirectLeadsToLoginPage ==
    /\ [](GateRedirected =>
            resp = [status |-> 302, location |-> "/login/", setCookie |-> <<>>,
                    error |-> ""])
    /\ []((pc \notin {"idle", "gate"}
            /\ req.path \in {"/login/", "/api/auth/login", "/api/auth/logout"})
            => ctx.ran)
    /\ GateRedirected ~>
          (pc = "done" /\ req.method = "GET" /\ req.path = "/login/" /\ ctx.ran
              /\ resp.status = 200)

\* the login page served to a client that followed the gate's redirect of a
\* request carrying a cookie
C24_Witness ==
    /\ pc = "done"
    /\ first.set
    /\ ~first.ran
    /\ first.token.found
    /\ req.path = "/login/"
    /\ req.cookie # <<>>
    /\ ctx.ran
    /\ resp.status = 200

(***************************************************************************)
(* The rate limiter called sequentially: a call starts only when no other  *)
(* call is inside rateLimitedFetch                                         *)
(***************************************************************************)

SeqEnter(c) ==
    /\ Sleeping = {}
    /\ Enter(c)

SeqNext ==
    \/ \E d \in RateSteps : RateTick(d)
    \/ \E c \in Callers : SeqEnter(c)
    \/ \E c \in Callers : Wake(c)

SpecRateSeq == RateInit /\ [][SeqNext]_vars

\* C25: with sequential calls, every outbound call is issued at least
\* MIN_REQUEST_INTERVAL after the one before it, lastRequestTime is the issue
\* time of the most recent outbound call, and lastRequestTime never
\* decreases.
C25_SequentialCallsSpaced ==
    /\ [](\A i \in 1..(Len(calls) - 1) : calls[i + 1] - calls[i] >= 220)
    /\ [](calls # <<>> => lastRequestTime = calls[Len(calls)])
    /\ [][lastRequestTime' >= lastRequestTime]_vars

\* a call that started right after the one before it and was issued 220 ms
\* later, followed by a third
C25_Witness ==
    /\ Len(calls) = 3
    /\ calls[2] = calls[1] + 220
    /\ calls[3] > calls[2] + 220
    /\ lastRequestTime = calls[3]
    /\ Sleeping = {}

(***************************************************************************)
(* getSitesForPilot against a remote store that answers page by page, and  *)
(* the route GET /api/sites around it. The texts are sequences of code     *)
(* units; call holds the run: the paths requested, the pages received, the *)
(* loop's variables and the outcome.                                       *)
(***************************************************************************)

\* the percent-encoding of URLSearchParams.prototype.toString
UpperHexChar(n) == IF n < 10 THEN 48 + n ELSE 55 + n

FormByte(b) ==
    IF b \in (48..57) \cup (65..90) \cup (97..122) \cup {42, 45, 46, 95} THEN <<b>>
    ELSE IF b = 32 THEN <<43>>
    ELSE <<37, UpperHexChar(b \div 16), UpperHexChar(b % 16)>>

FormBytes(bytes) == Flatten([i \in 1..Len(bytes) |-> FormByte(bytes[i])], 1, Len(bytes))

FormEncode(s) == FormBytes(encodeText(s))

FormPair(p) == FormEncode(p[1]) \o <<61>> \o FormEncode(p[2])

\* params.toString(): the pairs name=value joined by '&'
ParamsToString(params) ==
    Flatten([i \in 1..(2 * Len(params) - 1) |->
                IF i % 2 = 1 THEN FormPair(params[(i + 1) \div 2]) ELSE <<38>>],
            1, 2 * Len(params) - 1)

\* filterByFormula
FilterFormula(pilotName, includeCompleted) ==
    IF includeCompleted
    THEN <<123, 80, 105, 108, 111, 116, 32, 110, 97, 109, 101, 32, 116, 101, 120, 116, 32, 125, 61, 39>> \o pilotName \o <<39>>
    ELSE <<65, 78, 68, 40>> \o <<123, 80, 105, 108, 111, 116, 32, 110, 97, 109, 101, 32, 116, 101, 120, 116, 32, 125, 61, 39>> \o pilotName \o <<39>>
            \o <<44>> \o <<123, 65, 112, 112, 114, 111, 118, 97, 108, 32, 83, 116, 97, 116, 117, 115, 125, 33, 61, 39, 67, 111, 109, 112, 108, 101, 116, 101, 100, 39>> \o <<41>>

\* new URLSearchParams({...}) without the offset
ListParamsNoOffset(formula, offset) ==
    << <<<<102, 105, 108, 116, 101, 114, 66, 121, 70, 111, 114, 109, 117, 108, 97>>, formula>>,
       <<<<115, 111, 114, 116, 91, 48, 93, 91, 102, 105, 101, 108, 100, 93>>, <<65, 112, 112, 114, 111, 118, 97, 108, 32, 83, 116, 97, 116, 117, 115>>>>,
       <<<<115, 111, 114, 116, 91, 48, 93, 91, 100, 105, 114, 101, 99, 116, 105, 111, 110, 93>>, <<97, 115, 99>>>> >>

\* new URLSearchParams({...}); if (offset) params.set('offset', offset)
ListParams(formula, offset) ==
    << <<<<102, 105, 108, 116, 101, 114, 66, 121, 70, 111, 114, 109, 117, 108, 97>>, formula>>,
       <<<<115, 111, 114, 116, 91, 48, 93, 91, 102, 105, 101, 108, 100, 93>>, <<65, 112, 112, 114, 111, 118, 97, 108, 32, 83, 116, 97, 116, 117, 115>>>>,
       <<<<115, 111, 114, 116, 91, 48, 93, 91, 100, 105, 114, 101, 99, 116, 105, 111, 110, 93>>, <<97, 115, 99>>>> >>
        \o (IF offset.has /\ offset.val # <<>>
            THEN << <<<<111, 102, 102, 115, 101, 116>>, offset.val>> >>
            ELSE <<>>)

\* `?${params.toString()}`
ListPath(formula, offset) == <<63>> \o ParamsToString(ListParams(formula, offset))

\* the remote store reads the query: percent-decoding of an ASCII value
RECURSIVE FormDecodeFrom(_, _)
FormDecodeFrom(s, i) ==
    IF i > Len(s) THEN <<>>
    ELSE IF s[i] = 43 THEN <<32>> \o FormDecodeFrom(s, i + 1)
    ELSE IF s[i] = 37 /\ i + 2 <= Len(s) /\ IsHexDigit(s[i + 1]) /\ IsHexDigit(s[i + 2])
         THEN <<16 * HexVal(s[i + 1]) + HexVal(s[i + 2])>> \o FormDecodeFrom(s, i + 3)
    ELSE <<s[i]>> \o FormDecodeFrom(s, i + 1)

OffsetEntries(entries) ==
    {i \in 1..Len(entries) : StartsWith(entries[i], <<111, 102, 102, 115, 101, 116, 61>>)}

FirstOffset(entries, hits) ==
    IF hits = {} THEN None
    ELSE Some(FormDecodeFrom(entries[CHOOSE i \in hits : \A j \in hits : i <= j], 8))

\* the offset parameter the remote store finds in a requested path
ReceivedOffset(path) ==
    FirstOffset(Split(Tail(path), 38), OffsetEntries(Split(Tail(path), 38)))

\* records of the remote store
RecA == [id |-> "recA", siteName |-> Some("Alpha")]
RecB == [id |-> "recB", siteName |-> None]
RecC == [id |-> "recC", siteName |-> Some("Gamma")]
RecD == [id |-> "recD", siteName |-> Some("Delta")]

\* offsets of the remote store
OffsetOne == <<105, 116, 114, 49, 47, 114, 101, 99, 32, 66>>
OffsetTwo == <<105, 116, 114, 50, 47, 114, 101, 99, 43, 67>>

\* the answers of the remote store: a page of records with or without an
\* offset, a response that is not ok, a fetch that fails
OkPage(name, records, offset) ==
    [name |-> name, kind |-> "ok", status |-> 200, text |-> "", records |-> records,
     offset |-> offset]

NotOkPage(name, status, text) ==
    [name |-> name, kind |-> "notok", status |-> status, text |-> text, records |-> <<>>,
     offset |-> None]

NetPage(name) ==
    [name |-> name, kind |-> "net", status |-> 0, text |-> "", records |-> <<>>,
     offset |-> None]

\* remote stores: page 1 answers the request without an offset, a later
\* page answers the request that carries its name
Stores ==
    { <<OkPage(<<>>, <<RecA, RecB>>, None)>>,
      <<OkPage(<<>>, <<>>, None)>>,
      <<OkPage(<<>>, <<RecB, RecA>>, Some(OffsetOne)),
        OkPage(OffsetOne, <<RecC>>, None)>>,
      <<OkPage(<<>>, <<RecC>>, Some(OffsetOne)),
        OkPage(OffsetOne, <<RecA>>, Some(OffsetTwo)),
        OkPage(OffsetTwo, <<RecD, RecB>>, None)>>,
      <<OkPage(<<>>, <<RecA>>, Some(OffsetTwo)),
        OkPage(OffsetTwo, <<>>, Some(OffsetOne)),
        OkPage(OffsetOne, <<RecB>>, None)>>,
      <<NotOkPage(<<>>, 401, "AUTHENTICATION_REQUIRED")>>,
      <<NetPage(<<>>)>>,
      <<OkPage(<<>>, <<RecA>>, Some(OffsetOne)),
        NotOkPage(OffsetOne, 429, "RATE_LIMIT")>>,
      <<OkPage(<<>>, <<RecA>>, Some(OffsetOne)),
        OkPage(OffsetOne, <<RecB>>, Some(OffsetTwo)),
        NetPage(OffsetTwo)>>,
      <<OkPage(<<>>, <<RecA>>, Some(OffsetOne)),
        OkPage(OffsetOne, <<RecB>>, Some(OffsetOne))>>,
      <<OkPage(<<>>, <<RecA>>, Some(OffsetOne)),
        OkPage(OffsetOne, <<RecB>>, Some(OffsetTwo)),
        OkPage(OffsetTwo, <<RecC>>, Some(OffsetOne))>> }

\* the page the store answers a request for the offset off with
PageNamed(store, off, hits) ==
    IF ~off.has THEN store[1]
    ELSE IF hits = {} THEN NotOkPage(off.val, 422, "INVALID_OFFSET")
    ELSE store[CHOOSE k \in hits : \A j \in hits : k <= j]

StoreAnswerFor(store, off) ==
    PageNamed(store, off, {k \in 2..Len(store) : store[k].name = off.val})

StoreAnswer(store, path) == StoreAnswerFor(store, ReceivedOffset(path))

\* mapRecordToSite, the fields id and siteName
mapRecordToSite(record) ==
    [id |-> record.id,
     siteName |-> IF record.siteName.has THEN record.siteName.val ELSE ""]

MapRecords(records) == [i \in 1..Len(records) |-> mapRecordToSite(records[i])]

\* the requests one run may make
MaxRequests == 4

\* the issue time of a call of rateLimitedFetch that nothing overlaps
IssueTime ==
    IF now - lastRequestTime < MIN_REQUEST_INTERVAL
    THEN lastRequestTime + MIN_REQUEST_INTERVAL
    ELSE now

\* airtableFetch from its call to the fetch being issued
IssueFetch ==
    /\ now' = IssueTime
    /\ lastRequestTime' = IssueTime
    /\ calls' = Append(calls, IssueTime)

ListInit ==
    /\ now = RateStart
    /\ secret = NoSecret
    /\ issue = NoIssue
    /\ held = <<>>
    /\ flipped = FALSE
    /\ ver = NoVerify
    /\ HttpAtRest
    /\ RateAtRest
    /\ AuxAtRest

\* time passes between two steps
ListTick ==
    /\ IF call.fn = "none" THEN TRUE ELSE call.at = "fetch"
    /\ now + MIN_REQUEST_INTERVAL <= RateEnd
    /\ now' = now + MIN_REQUEST_INTERVAL
    /\ UNCHANGED <<secret, codecVars, httpVars, rateVars, auxVars>>

\* GET /api/sites from the call of getSitesForPilot to the first fetch, or
\* to the error of getConfig
ListStart(store, pilotName, includeCompleted, configured) ==
    /\ call = NoCall
    /\ IF configured
       THEN /\ call' = [fn |-> "getSitesForPilot", at |-> "fetch", store |-> store,
                        formula |-> FilterFormula(pilotName, includeCompleted),
                        allRecords |-> <<>>, offset |-> None,
                        sent |-> <<ListPath(FilterFormula(pilotName, includeCompleted),
                                            None)>>,
                        got |-> <<>>, sites |-> <<>>, error |-> "",
                        resp |-> Json(0, "")]
            /\ IssueFetch
            /\ UNCHANGED rl
       ELSE /\ call' = [fn |-> "getSitesForPilot", at |-> "threw", store |-> store,
                        formula |-> FilterFormula(pilotName, includeCompleted),
                        allRecords |-> <<>>, offset |-> None, sent |-> <<>>,
                        got |-> <<>>, sites |-> <<>>,
                        error |-> "Missing AIRTABLE_PAT or AIRTABLE_BASE_ID environment variables",
                        resp |-> Json(500, "Failed to fetch sites")]
            /\ UNCHANGED <<now, rateVars>>
    /\ UNCHANGED <<secret, codecVars, httpVars, first>>

\* the run after a page that continues the loop
Continued(run, page) ==
    [run EXCEPT !.allRecords = @ \o page.records,
                !.offset = page.offset,
                !.got = Append(@, page),
                !.sent = Append(@, ListPath(run.formula, page.offset))]

\* the run after the page that ends the loop
Returned(run, page) ==
    [run EXCEPT !.at = "returned",
                !.allRecords = @ \o page.records,
                !.offset = page.offset,
                !.got = Append(@, page),
                !.sites = MapRecords(run.allRecords \o page.records),
                !.resp = Json(200, "")]

\* the run after a fetch that failed or a response that is not ok
Threw(run, page) ==
    [run EXCEPT !.at = "threw",
                !.got = Append(@, page),
                !.error = IF page.kind = "net" THEN "fetch failed"
                          ELSE "Airtable API error",
                !.resp = Json(500, "Failed to fetch sites")]

\* while (offset)
LoopsOn(page) == page.kind = "ok" /\ page.offset.has /\ page.offset.val # <<>>

\* the answer to the request in flight arrives: the loop's body from the
\* await to the next fetch, to the return or to the throw, and the route's
\* response
ListPage(page) ==
    /\ LoopsOn(page) => Len(call.sent) < MaxRequests
    /\ IF page.kind # "ok"
       THEN /\ call' = Threw(call, page)
            /\ UNCHANGED <<now, rateVars>>
       ELSE IF LoopsOn(page)
       THEN /\ call' = Continued(call, page)
            /\ IssueFetch
            /\ UNCHANGED rl
       ELSE /\ call' = Returned(call, page)
            /\ UNCHANGED <<now, rateVars>>

ListRespond ==
    /\ call.fn = "getSitesForPilot"
    /\ call.at = "fetch"
    /\ \E page \in {StoreAnswer(call.store, call.sent[Len(call.sent)])} : ListPage(page)
    /\ UNCHANGED <<secret, codecVars, httpVars, first>>

ListNext ==
    \/ ListTick
    \/ \E s \in Stores, n \in {NameJo, NameZoe}, i \in BOOLEAN, c \in BOOLEAN :
            ListStart(s, n, i, c)
    \/ ListRespond

\* ListRespond can be taken: a request is in flight and its answer may be
\* followed
ListRespondEnabled ==
    /\ call.fn = "getSitesForPilot"
    /\ call.at = "fetch"
    /\ LoopsOn(StoreAnswer(call.store, call.sent[Len(call.sent)]))
            => Len(call.sent) < MaxRequests

\* every fetch is answered or fails: weak fairness of ListRespond, which a
\* run takes finitely often, stated on the states where it can be taken
SpecList == ListInit /\ [][ListNext]_vars /\ []<>(~ListRespondEnabled)

\* the records of the pages got[1..k], in order
RECURSIVE RecordsOf(_, _)
RecordsOf(got, k) == IF k = 0 THEN <<>> ELSE RecordsOf(got, k - 1) \o got[k].records

\* the store's chain of pages, followed from page k for at most n requests,
\* comes to a page without an offset, to a response that is not ok or to a
\* failed fetch
RECURSIVE ChainEnds(_, _, _)
ChainEnds(store, page, n) ==
    IF n = 0 THEN FALSE
    ELSE IF ~LoopsOn(page) THEN TRUE
    ELSE ChainEnds(store, StoreAnswerFor(store, page.offset), n - 1)

ListRunning == call.fn = "getSitesForPilot" /\ call.at = "fetch"

\* C26: getSitesForPilot has one request in flight at a time; the first
\* carries no offset and every later one the offset of the page before it;
\* it goes on after a page exactly when the page is ok and has an offset; it
\* returns the sites of the records of all pages in order after the first
\* page without an offset; after a failed page it throws and the route hands
\* out no site; and it comes to an end whenever the store's chain of pages
\* does.
C26_PagesFollowedToTheLast ==
    /\ [](call.fn = "getSitesForPilot" =>
            /\ Len(call.sent) = Len(call.got) + (IF call.at = "fetch" THEN 1 ELSE 0)
            /\ Len(calls) = Len(call.sent)
            /\ \A k \in 1..Len(call.sent) :
                    ReceivedOffset(call.sent[k]) =
                        (IF k = 1 THEN None ELSE call.got[k - 1].offset)
            /\ \A k \in 1..Len(call.got) :
                    (k < Len(call.got) \/ call.at = "fetch")
                        <=> (call.got[k].kind = "ok" /\ call.got[k].offset.has)
            /\ call.at = "returned" =>
                    /\ call.got # <<>>
                    /\ call.sites = MapRecords(RecordsOf(call.got, Len(call.got)))
                    /\ call.resp.status = 200
            /\ call.at = "threw" =>
                    /\ call.got # <<>> => call.got[Len(call.got)].kind # "ok"
                    /\ call.sites = <<>>
                    /\ call.error # ""
                    /\ call.resp = [status |-> 500, location |-> "", setCookie |-> <<>>,
                                    error |-> "Failed to fetch sites"])
    /\ (ListRunning /\ ChainEnds(call.store, call.store[1], 3))
            ~> (call.fn = "getSitesForPilot" /\ call.at \in {"returned", "threw"})

\* three pages were followed by their offsets and the sites of all of them
\* returned in the order of the pages
C26_Witness ==
    /\ call.fn = "getSitesForPilot"
    /\ call.at = "returned"
    /\ Len(call.got) = 3
    /\ call.got[1].offset = Some(OffsetTwo)
    /\ call.got[2].offset = Some(OffsetOne)
    /\ call.sites = <<[id |-> "recA", siteName |-> "Alpha"], [id |-> "recB", siteName |-> ""]>>

====
